---- MODULE Spec2Model ----
(***************************************************************************)
(* Model of the authenticated request engine of monzo/client.py            *)
(* (MonzoClient._make_request / _make_request_with_retry) together with    *)
(* the error taxonomy of monzo/exceptions.py.                              *)
(*                                                                         *)
(* One engine call is followed from the access-token check through the     *)
(* retry loop; every loop iteration (request, classification of the        *)
(* outcome, optional blocking sleep) is one step.  The remote service and  *)
(* the network are the environment: they choose the outcome of each        *)
(* attempt.                                                                *)
(***************************************************************************)
EXTENDS Integers, Sequences, FiniteSets, TLC

VARIABLES
    op,             \* the public method of the client being executed, with its arguments
    access_token,   \* self.access_token
    max_retries,    \* self.max_retries
    retry_delay,    \* self.retry_delay (in whole time units)
    pc,             \* position of the caller: "idle", "loop" (inside the for loop), "done"
    request,        \* arguments of the engine call in progress
    attempt,        \* loop variable of `for attempt in range(self.max_retries + 1)`
    response,       \* the last HTTP response received by the call
    log,            \* what the call did so far: HTTP attempts and sleeps, in order
    result,         \* how the call ended: value returned or exception raised
    sent,           \* the requests the call handed to session.request, in order
    refresh_token,  \* self.refresh_token
    client_id,      \* self.client_id
    client_secret,  \* self.client_secret
    redirect_uri,   \* self.redirect_uri
    session_auth,   \* self.session.headers["Authorization"]
    auto_save,      \* self.auto_save
    auth_file,      \* contents of the credentials file at self._auth_file
    token_posts,    \* the requests.post(TOKEN_URL, ...) calls made so far
    engine_calls,   \* the _make_request calls the method has made, in order
    op_result,      \* what the method returned or raised
    all_transactions, \* local variable of _get_all_transactions
    before_id       \* local variable of _get_all_transactions

client_vars == <<access_token, max_retries, retry_delay, refresh_token, client_id,
                 client_secret, redirect_uri, session_auth, auto_save, auth_file>>
engine_vars == <<pc, request, attempt, response, log, result, sent>>
op_vars == <<token_posts, op, engine_calls, op_result, all_transactions, before_id>>

vars == <<client_vars, engine_vars, op_vars>>

(***************************************************************************)
(* Bounds of the model.                                                    *)
(***************************************************************************)
MaxRetries == 2

(***************************************************************************)
(* Python values.                                                          *)
(***************************************************************************)
None == "<None>"                    \* None where a string is expected
NoneData == {<<"<None>">>}          \* None where a mapping is expected
NoStatus == 0                       \* status_code = None

\* truth value of an Optional[str]: None and "" are falsy
Truthy(s) == s # None /\ s # ""

\* f"Bearer {token}"; << >> stands for a session without Authorization header
Bearer(token) == <<"Bearer", token>>
NoHeader == << >>

\* the credentials file does not exist
NoFile == [exists |-> FALSE]

\* a mapping (dict) is the set of its <<key, value>> items; {} is the empty dict
\* `response_data or {}` of MonzoAPIError.__init__
OrEmpty(response_data) ==
    IF response_data = NoneData \/ response_data = {} THEN {} ELSE response_data

(***************************************************************************)
(* Input domains.                                                          *)
(***************************************************************************)
Tokens == {None, "", "tok_a"}
RetryDelays == {1, 2}
RetryBudgets == -1 .. MaxRetries

\* the arguments of an engine call: `params` and `data` are Optional[dict],
\* a dict is the set of its items and None is NoneData
Request(method, endpoint, params, data) ==
    [method |-> method, endpoint |-> endpoint, params |-> params, data |-> data]

Requests ==
    { Request("GET", "/accounts", NoneData, NoneData),
      Request("GET", "/pots", {<<"current_account_id", "acc_1">>}, NoneData),
      Request("PUT", "/pots/p/deposit", NoneData,
              {<<"source_account_id", "acc_1">>, <<"amount", 500>>, <<"dedupe_id", "d1">>}),
      Request("PUT", "/pots/p/deposit", NoneData,
              {<<"source_account_id", "acc_1">>, <<"amount", 500>>}),
      Request("POST", "/webhooks", NoneData,
              {<<"account_id", "acc_1">>, <<"url", "https://h">>}),
      Request("DELETE", "/webhooks/w", NoneData, NoneData) }

\* every combination of method, endpoint and body: `data` is None, the empty
\* dict or a non-empty dict
Methods == {"GET", "POST", "PUT", "PATCH", "DELETE"}
Endpoints == {"/webhooks", "/feed", "/webhooks/w", "/pots/p/deposit", "/pots/p/withdraw",
              "/transaction-receipts", "/transactions/t", "/attachment/upload",
              "/attachment/register", "/attachment/detach"}
Bodies == {NoneData, {}, {<<"k", "v">>}}
AllRequests == [method : Methods, endpoint : Endpoints, params : {NoneData}, data : Bodies]

\* status codes the remote service may answer with
Statuses == {200, 204, 304, 400, 401, 404, 429, 500, 503}

\* response bodies on the wire: no content, content that is not JSON,
\* and JSON objects (the empty object and two different non-empty ones).
\* JSON bodies are objects: the engine returns Dict[str, Any] and the
\* exceptions carry response_data: Optional[Dict[str, Any]].
WireBodies == {"", "<html>", "{}", "{\"k\":\"a\"}", "{\"k\":\"b\"}"}

\* requests.exceptions.ConnectionError / Timeout
NetworkFailures == {"ConnectionError", "Timeout"}
\* any other requests.exceptions.RequestException raised by session.request
OtherFailures == {"RequestException"}

(***************************************************************************)
(* requests.Response                                                       *)
(***************************************************************************)
NoResponse == [status_code |-> NoStatus, content |-> ""]

\* bool(response.content)
HasContent(content) == content # ""

\* does response.json() succeed
IsJson(content) == content \in {"{}", "{\"k\":\"a\"}", "{\"k\":\"b\"}"}

\* response.json() for content that is JSON
json_loads(content) ==
    CASE content = "{}"            -> {}
      [] content = "{\"k\":\"a\"}" -> {<<"k", "a">>}
      [] content = "{\"k\":\"b\"}" -> {<<"k", "b">>}
      [] OTHER                     -> NoneData

\* a response whose status is never taken for an error
raise_for_status_Never(status_code) == FALSE

\* response.raise_for_status(): HTTPError for 4xx and 5xx only
raise_for_status(status_code) == 400 <= status_code /\ status_code < 600

(***************************************************************************)
(* monzo/exceptions.py                                                     *)
(***************************************************************************)
NoResult ==
    [kind |-> "none", exc |-> "", message |-> "", status_code |-> NoStatus, data |-> {}]

Return(value) ==
    [kind |-> "return", exc |-> "", message |-> "", status_code |-> NoStatus, data |-> value]

MonzoAPIError(message, status_code, response_data) ==
    [kind |-> "raise", exc |-> "MonzoAPIError", message |-> message,
     status_code |-> status_code, data |-> OrEmpty(response_data)]

MonzoAuthenticationError(message, response_data) ==
    [MonzoAPIError(message, 401, response_data) EXCEPT !.exc = "MonzoAuthenticationError"]

MonzoRateLimitError(message, response_data) ==
    [MonzoAPIError(message, 429, response_data) EXCEPT !.exc = "MonzoRateLimitError"]

MonzoValidationError(message, response_data) ==
    [MonzoAPIError(message, 400, response_data) EXCEPT !.exc = "MonzoValidationError"]

\* the exception response.json() raises for content that is not JSON; it is
\* no MonzoAPIError and has neither status_code nor response_data
JSONDecodeError ==
    [kind |-> "raise", exc |-> "JSONDecodeError", message |-> "",
     status_code |-> NoStatus, data |-> {}]

TaxonomyKinds ==
    {"MonzoAPIError", "MonzoAuthenticationError", "MonzoRateLimitError", "MonzoValidationError"}

(***************************************************************************)
(* The log of one call.                                                    *)
(***************************************************************************)
HttpEv(status_code) == [ev |-> "http", status_code |-> status_code, wait |-> 0]
FailEv(kind)        == [ev |-> kind, status_code |-> NoStatus, wait |-> 0]
SleepEv(wait)       == [ev |-> "sleep", status_code |-> NoStatus, wait |-> wait]

IsAttemptEv(e) == e.ev # "sleep"
NumAttempts == Len(SelectSeq(log, IsAttemptEv))
IsSleepEv(e) == e.ev = "sleep"
NumSleeps == Len(SelectSeq(log, IsSleepEv))

(***************************************************************************)
(* _make_request_with_retry                                                *)
(***************************************************************************)
\* a check that only looks for None
TokenMissing_OnlyNone(token) == token = None

\* `if not self.access_token` (line 235)
TokenMissing(token) == ~Truthy(token)

\* a loop over range(self.max_retries)
InRange_OneShort(att) == 0 <= att /\ att < max_retries

\* `attempt in range(self.max_retries + 1)` (line 241)
InRange(att) == 0 <= att /\ att < max_retries + 1

\* a condition that still holds on the last attempt of the budget
AttemptsRemain_Inclusive(att) == att <= max_retries

\* a condition that lets every retryable failure sleep
AttemptsRemain_Always(att) == TRUE

\* `if attempt < self.max_retries` (lines 284, 300, 318)
AttemptsRemain(att) == att < max_retries

\* a fixed delay between retries
wait_time_Fixed(att) == retry_delay

\* `self.retry_delay * (2 ** attempt)` (lines 285, 301, 319)
wait_time(att) == retry_delay * (2 ^ att)

\* bool(data) of an Optional[dict]
DataTruthy(data) == data # NoneData /\ data # {}

\* a form branch taken for every request with a body
UsesFormData_AnyBody(req) == DataTruthy(req.data)

\* the condition of lines 244-247
UsesFormData(req) ==
    \/ req.method = "PUT" /\ DataTruthy(req.data)
    \/ req.method = "POST" /\ DataTruthy(req.data) /\ req.endpoint \in {"/webhooks", "/feed"}

\* the arguments of session.request (lines 251-266) and what requests makes
\* of them: `data=form_data` is sent form-urlencoded with the Content-Type
\* given in `headers`; `json=data` is sent as a JSON body unless data is None,
\* and then there is no body
PrepareRequest(req) ==
    IF UsesFormData(req)
    THEN [method |-> req.method, endpoint |-> req.endpoint, params |-> req.params,
          data |-> req.data, encoding |-> "form", content_type |-> "application/x-www-form-urlencoded",
          authorization |-> session_auth]
    ELSE [method |-> req.method, endpoint |-> req.endpoint, params |-> req.params,
          data |-> req.data, encoding |-> IF req.data = NoneData THEN "none" ELSE "json",
          content_type |-> "application/json",
          authorization |-> session_auth]

\* what one loop iteration decides
Finish(res)  == [next |-> "done", result |-> res, wait |-> 0]
Retry(att)   == [next |-> "continue", result |-> NoResult, wait |-> wait_time(att)]

\* an expression `X(..., response_data=response.json())` evaluated inside an
\* except clause: when the content is not JSON, response.json() raises and
\* that exception leaves the function instead of X
WithParsedBody(content, exception) ==
    IF IsJson(content) THEN exception ELSE JSONDecodeError

\* a success path that parses the body without looking for empty content
OnNoHTTPError_AlwaysParse(content) ==
    IF IsJson(content) THEN {Finish(Return(json_loads(content)))}
    ELSE {Finish(MonzoAPIError("Request failed", NoStatus, NoneData)),
          Finish(JSONDecodeError)}

\* lines 268-274: raise_for_status() passed.  response.json() is called
\* inside the try block: its failure is a requests.exceptions.JSONDecodeError
\* (a RequestException, caught at line 324) in requests >= 2.27 and a plain
\* ValueError (not caught) before; the repository does not pin the version.
OnNoHTTPError(content) ==
    IF ~HasContent(content) THEN {Finish(Return({}))}
    ELSE IF IsJson(content) THEN {Finish(Return(json_loads(content)))}
    ELSE {Finish(MonzoAPIError("Request failed", NoStatus, NoneData)),
          Finish(JSONDecodeError)}

\* a 401 handled like a 429
On401_Retried(content) ==
    IF AttemptsRemain(attempt) THEN Retry(attempt)
    ELSE Finish(WithParsedBody(content,
            MonzoAuthenticationError("Invalid access token", json_loads(content))))

\* lines 278-281
On401(content) ==
    Finish(WithParsedBody(content,
        MonzoAuthenticationError("Invalid access token", json_loads(content))))

\* lines 282-291
On429(att, content) ==
    IF AttemptsRemain(att) THEN Retry(att)
    ELSE Finish(WithParsedBody(content,
            MonzoRateLimitError("Rate limit exceeded", json_loads(content))))

\* a 400 handled like a 5xx
On400_Retried(content) ==
    IF AttemptsRemain(attempt) THEN Retry(attempt)
    ELSE Finish(WithParsedBody(content,
            MonzoValidationError("Invalid request", json_loads(content))))

\* lines 292-297
On400(content) ==
    Finish(WithParsedBody(content,
        MonzoValidationError("Invalid request", json_loads(content))))

\* `MonzoAPIError(f"API request failed: {response.status_code}",
\*  status_code=response.status_code,
\*  response_data=response.json() if response.content else {})`
\* (lines 305-309 and 311-315)
APIRequestFailed(status_code, content) ==
    IF HasContent(content)
    THEN WithParsedBody(content,
            MonzoAPIError("API request failed", status_code, json_loads(content)))
    ELSE MonzoAPIError("API request failed", status_code, {})

\* lines 298-309
On5xx(att, status_code, content) ==
    IF AttemptsRemain(att) THEN Retry(att)
    ELSE Finish(APIRequestFailed(status_code, content))

\* lines 310-315
OnOtherStatus(status_code, content) ==
    Finish(APIRequestFailed(status_code, content))

\* lines 276-315: except requests.exceptions.HTTPError
OnHTTPError(att, status_code, content) ==
    IF status_code = 401 THEN On401(content)
    ELSE IF status_code = 429 THEN On429(att, content)
    ELSE IF status_code = 400 THEN On400(content)
    ELSE IF status_code >= 500 THEN On5xx(att, status_code, content)
    ELSE OnOtherStatus(status_code, content)

\* a network failure that is never retried
OnNetworkFailure_NoRetry(att) ==
    Finish(MonzoAPIError("Request failed after retries", NoStatus, NoneData))

\* an engine that retries only requests whose method is safe
OnNetworkFailure_SafeMethods(att) ==
    IF AttemptsRemain(att) /\ request.method = "GET" THEN Retry(att)
    ELSE Finish(MonzoAPIError("Request failed after retries", NoStatus, NoneData))

\* lines 316-323: except (ConnectionError, Timeout)
OnNetworkFailure(att) ==
    IF AttemptsRemain(att) THEN Retry(att)
    ELSE Finish(MonzoAPIError("Request failed after retries", NoStatus, NoneData))

\* any RequestException handled like a network failure
OnOtherFailure_Retried ==
    IF AttemptsRemain(attempt) THEN Retry(attempt)
    ELSE Finish(MonzoAPIError("Request failed", NoStatus, NoneData))

\* lines 324-325: except requests.exceptions.RequestException
OnOtherFailure ==
    Finish(MonzoAPIError("Request failed", NoStatus, NoneData))

\* the effect of one loop iteration whose attempt was logged as `event`
Iterate(event, step) ==
    /\ sent' = Append(sent, PrepareRequest(request))
    /\ result' = step.result
    /\ IF step.next = "continue"
       THEN /\ log' = log \o <<event, SleepEv(step.wait)>>
            /\ attempt' = attempt + 1
            /\ pc' = "loop"
       ELSE /\ log' = Append(log, event)
            /\ attempt' = attempt
            /\ pc' = "done"

(***************************************************************************)
(* Actions                                                                 *)
(***************************************************************************)
\* no engine call has been made yet
EngineIdle ==
    /\ pc = "idle"
    /\ request = Request("GET", "/accounts", NoneData, NoneData)
    /\ attempt = 0
    /\ response = NoResponse
    /\ log = << >>
    /\ result = NoResult
    /\ sent = << >>

\* no public method has been called yet
NoOperation ==
    /\ token_posts = << >>
    /\ op = [name |-> "none", pc |-> "done"]
    /\ engine_calls = << >>
    /\ op_result = NoResult
    /\ all_transactions = << >>
    /\ before_id = None

\* a constructor that leaves the session without Authorization header
InitialHeader_Absent(token) == NoHeader

\* the session headers __init__ sets: lines 67-76
InitialHeader(token) == IF Truthy(token) THEN Bearer(token) ELSE NoHeader

\* a client constructed with an access token argument (or none) and no
\* OAuth credentials, no credentials file: lines 53-80
Init ==
    /\ access_token \in Tokens
    /\ max_retries \in RetryBudgets
    /\ retry_delay \in RetryDelays
    /\ refresh_token = None
    /\ client_id = None
    /\ client_secret = None
    /\ redirect_uri = None
    /\ session_auth = InitialHeader(access_token)
    /\ auto_save = FALSE
    /\ auth_file = NoFile
    /\ EngineIdle
    /\ NoOperation

\* a caller enters _make_request with one of `requests`: lines 209, 235-239
CallWith(requests) ==
    /\ pc = "idle"
    /\ \E req \in requests : request' = req
    /\ attempt' = 0
    /\ response' = NoResponse
    /\ log' = << >>
    /\ sent' = << >>
    /\ IF TokenMissing(access_token)
       THEN /\ pc' = "done"
            /\ result' = MonzoAuthenticationError("No access token provided", NoneData)
       ELSE /\ pc' = "loop"
            /\ result' = NoResult
    /\ UNCHANGED <<client_vars, op_vars>>

Call == CallWith(Requests)

\* an attempt answered with a status raise_for_status() accepts
AttemptNoHTTPError ==
    /\ pc = "loop" /\ InRange(attempt)
    /\ \E status_code \in Statuses, content \in WireBodies :
        /\ ~raise_for_status(status_code)
        /\ response' = [status_code |-> status_code, content |-> content]
        /\ \E step \in OnNoHTTPError(content) : Iterate(HttpEv(status_code), step)
    /\ UNCHANGED <<client_vars, op_vars, request>>

\* an engine that answers a 401 by installing a new token itself
AttemptHTTPError_Refreshing ==
    /\ pc = "loop" /\ InRange(attempt)
    /\ \E status_code \in Statuses, content \in WireBodies :
        /\ raise_for_status(status_code)
        /\ response' = [status_code |-> status_code, content |-> content]
        /\ Iterate(HttpEv(status_code), OnHTTPError(attempt, status_code, content))
        /\ access_token' = IF status_code = 401 THEN "tok_engine" ELSE access_token
        /\ session_auth' = IF status_code = 401 THEN Bearer("tok_engine") ELSE session_auth
    /\ UNCHANGED <<max_retries, retry_delay, refresh_token, client_id, client_secret,
                   redirect_uri, auto_save, auth_file, op_vars, request>>

\* an attempt answered with a status raise_for_status() rejects
AttemptHTTPError ==
    /\ pc = "loop" /\ InRange(attempt)
    /\ \E status_code \in Statuses, content \in WireBodies :
        /\ raise_for_status(status_code)
        /\ response' = [status_code |-> status_code, content |-> content]
        /\ Iterate(HttpEv(status_code), OnHTTPError(attempt, status_code, content))
    /\ UNCHANGED <<client_vars, op_vars, request>>

\* an attempt that ends in a connection error or a timeout
AttemptNetworkFailure ==
    /\ pc = "loop" /\ InRange(attempt)
    /\ \E kind \in NetworkFailures : Iterate(FailEv(kind), OnNetworkFailure(attempt))
    /\ UNCHANGED <<client_vars, op_vars, request, response>>

\* an attempt that ends in any other RequestException
AttemptOtherFailure ==
    /\ pc = "loop" /\ InRange(attempt)
    /\ \E kind \in OtherFailures : Iterate(FailEv(kind), OnOtherFailure)
    /\ UNCHANGED <<client_vars, op_vars, request, response>>

\* the for loop ends without return or raise: lines 327-328
LoopExit ==
    /\ pc = "loop" /\ ~InRange(attempt)
    /\ pc' = "done"
    /\ result' = MonzoAPIError("Request failed after retries", NoStatus, NoneData)
    /\ UNCHANGED <<client_vars, op_vars, request, attempt, response, log, sent>>

\* the caller has seen the result and may call again
Finished ==
    /\ pc = "done"
    /\ pc' = "idle"
    /\ UNCHANGED <<client_vars, op_vars, request, attempt, response, log, result, sent>>

Next ==
    \/ Call
    \/ AttemptNoHTTPError
    \/ AttemptHTTPError
    \/ AttemptNetworkFailure
    \/ AttemptOtherFailure
    \/ LoopExit
    \/ Finished

Spec == Init /\ [][Next]_vars

(***************************************************************************)
(* The engine called with every combination of method, endpoint and body,  *)
(* by a client that holds an access token.                                 *)
(***************************************************************************)
InitEncoding ==
    /\ access_token = "tok_a"
    /\ max_retries \in {0, 1}
    /\ retry_delay = 1
    /\ refresh_token = None
    /\ client_id = None
    /\ client_secret = None
    /\ redirect_uri = None
    /\ session_auth = InitialHeader(access_token)
    /\ auto_save = FALSE
    /\ auth_file = NoFile
    /\ EngineIdle
    /\ NoOperation

CallAny == CallWith(AllRequests)

NextEncoding ==
    \/ CallAny
    \/ AttemptNoHTTPError
    \/ AttemptHTTPError
    \/ AttemptNetworkFailure
    \/ AttemptOtherFailure

SpecEncoding == InitEncoding /\ [][NextEncoding]_vars

(***************************************************************************)
(* Resource operations (client.py lines 330-619).  An operation calls      *)
(* _make_request; the call is taken as a whole here: it raises one of the  *)
(* errors of the engine or returns the parsed payload of the response,     *)
(* which the remote service chooses.  `result` holds the outcome of the    *)
(* last _make_request call, `op_result` the outcome of the operation.      *)
(***************************************************************************)
MaxAccounts == 3
MaxPots == 2
MaxPages == 3

\* errors an engine call can end with when the access token is set
EngineErrors ==
    { MonzoAuthenticationError("Invalid access token", {<<"k", "a">>}),
      MonzoRateLimitError("Rate limit exceeded", {<<"k", "b">>}),
      MonzoValidationError("Invalid request", {<<"k", "a">>}),
      MonzoAPIError("API request failed", 500, {}),
      MonzoAPIError("Request failed after retries", NoStatus, NoneData),
      JSONDecodeError }

\* the exceptions self._make_request(...) can raise in the current state of
\* the client: without access token the Authentication error of line 236
EngineRaises ==
    IF TokenMissing(access_token)
    THEN {MonzoAuthenticationError("No access token provided", NoneData)}
    ELSE EngineErrors

\* the payloads it can return, when a successful response carries one of
\* `payloads`
EngineReturns(payloads) == IF TokenMissing(access_token) THEN {} ELSE payloads

\* the arguments of one _make_request call; None stands for an absent argument
EngineCall(method, endpoint, params, data) ==
    [method |-> method, endpoint |-> endpoint, params |-> params, data |-> data]
NoParams == NoneData
NoBody == NoneData

\* the item a dict gets under `if value: d[key] = value`
Param(key, value) == IF Truthy(value) THEN {<<key, value>>} ELSE {}

\* d[key] for a key the dict has
Get(d, key) == (CHOOSE item \in d : item[1] = key)[2]

\* f-strings are the sequence of their parts; ValueError carries such a message
ValueError(message) ==
    [kind |-> "raise", exc |-> "ValueError", message |-> message,
     status_code |-> NoStatus, data |-> NoneData]

\* sequences over S of length at most n
SeqsUpTo(S, n) == UNION {[1..k -> S] : k \in 0..n}

\* an operation that catches the exception of the engine and raises the
\* generic API error in its place
Propagate_Reinterpreted(raised) ==
    MonzoAPIError("API request failed", raised.status_code, raised.data)

\* the operations have no try/except around self._make_request(...): its
\* exception leaves the operation as it is
Propagate(raised) == raised

\* the operation ends: with the exception of the engine call, or with `value`
EndOperation(name, args, calls, outcome, value) ==
    /\ op' = [name |-> name, pc |-> "done", args |-> args,
              payload |-> IF outcome.kind = "return" THEN outcome.data ELSE << >>]
    /\ engine_calls' = calls
    /\ result' = outcome
    /\ op_result' = IF outcome.kind = "raise" THEN Propagate(outcome) ELSE Return(value)

(************************* get_accounts: 330-338 ***************************)
\* accounts as the service sends them; "closed" may be absent
RawAccounts == [id : {"acc_1", "acc_2"}, closed : {"absent", "true", "false"}]
AccountLists == SeqsUpTo(RawAccounts, MaxAccounts)

\* account.get("closed", False)
ClosedFlag(account) == account.closed = "true"

\* Account.from_dict (models.py 21-42), the fields of interest
AccountFromDict(account) == [id |-> account.id, closed |-> ClosedFlag(account)]

\* a filter that keeps only accounts that say closed = false
NotClosed_Explicit(account) == account.closed = "false"

\* `not account.get("closed", False)` (line 336)
NotClosed(account) == ~ClosedFlag(account)

\* lines 333-338
OpenAccounts(accounts) ==
    LET filtered == SelectSeq(accounts, NotClosed)
    IN  [i \in 1..Len(filtered) |-> AccountFromDict(filtered[i])]

get_accounts ==
    /\ op.name = "none"
    /\ LET calls == <<EngineCall("GET", "/accounts", NoParams, NoBody)>>
       IN  \/ \E raised \in EngineRaises :
                 EndOperation("get_accounts", << >>, calls, raised, << >>)
           \/ \E accounts \in EngineReturns(AccountLists) :
                 EndOperation("get_accounts", << >>, calls, Return(accounts),
                              OpenAccounts(accounts))
    /\ UNCHANGED <<client_vars, pc, request, attempt, response, log, sent,
                   token_posts, all_transactions, before_id>>

(***************************************************************************)
(* OAuth2 guidance: get_authorization_url 111-131 and                      *)
(* ensure_recent_authentication 725-753                                    *)
(***************************************************************************)
AUTH_URL == "https://auth.monzo.com/"

\* str(uuid.uuid4()), line 123
Uuids == {"uuid_1", "uuid_2"}

\* f"{self.AUTH_URL}?{urlencode(params)}" with the params of lines 124-130
AuthorizationUrl(state) ==
    [base |-> AUTH_URL,
     query |-> {<<"client_id", client_id>>, <<"redirect_uri", redirect_uri>>,
                <<"response_type", "code">>, <<"state", state>>,
                <<"scope", "openid email accounts">>}]

\* a guard that asks for client_id and redirect_uri only
ReauthCredentialsMissing_NoSecret == ~Truthy(client_id) \/ ~Truthy(redirect_uri)

\* line 741
ReauthCredentialsMissing ==
    ~Truthy(client_id) \/ ~Truthy(client_secret) \/ ~Truthy(redirect_uri)

\* the exceptions ensure_recent_authentication() can raise in the current
\* state of the client; it has no path that returns
RecentAuthenticationErrors ==
    IF ReauthCredentialsMissing
    THEN {ValueError(<<"client_id, client_secret, and redirect_uri are required for full reauthentication. Please configure these values and use the OAuth2 flow to get fresh tokens.">>)}
    ELSE {ValueError(<<"Full reauthentication required. Please visit this URL to reauthorize: ",
                       AuthorizationUrl(state),
                       "\nAfter authorization, use exchange_code_for_token() with the returned code.">>)
            : state \in Uuids}

\* ensure_recent_authentication() called by the user of the client
ensure_recent_authentication ==
    /\ op.name = "none"
    /\ \E raised \in RecentAuthenticationErrors : op_result' = raised
    /\ op' = [name |-> "ensure_recent_authentication", pc |-> "done", args |-> << >>,
              payload |-> << >>]
    /\ UNCHANGED <<client_vars, engine_vars, token_posts, engine_calls,
                   all_transactions, before_id>>

(***************************************************************************)
(* Token exchange: exchange_code_for_token 133-159 and                     *)
(* refresh_access_token 161-183                                            *)
(***************************************************************************)
MaxExchanges == 2

TOKEN_URL == "https://api.monzo.com/oauth2/token"

\* an exception that is none of monzo/exceptions.py
PythonError(exc) ==
    [kind |-> "raise", exc |-> exc, message |-> "", status_code |-> NoStatus, data |-> {}]

\* a response body that response.json() cannot parse
NotJson == {<<"<html>">>}

\* what the token endpoint answers: requests.post raises, or there is a
\* response with a status and a body, a JSON object or not
TokenBodies ==
    { {<<"access_token", "tok_b">>, <<"refresh_token", "ref_b">>},
      {<<"access_token", "tok_c">>},
      {<<"refresh_token", "ref_b">>},
      NotJson }
TokenAnswers ==
    [failure : {""}, status_code : {200, 400, 500}, body : TokenBodies]
        \cup [failure : {"ConnectionError"}, status_code : {NoStatus}, body : {NotJson}]

HasKey(d, key) == \E item \in d : item[1] = key

\* tokens.get(key)
GetOrNone(d, key) == IF HasKey(d, key) THEN Get(d, key) ELSE None

\* lines 151-154 / 175-178: the exception the answer leads to before any
\* field is assigned, or the tokens
TokensOf(answer) ==
    IF answer.failure # "" THEN PythonError(answer.failure)
    ELSE IF raise_for_status(answer.status_code) THEN PythonError("HTTPError")
    ELSE IF answer.body = NotJson THEN JSONDecodeError
    ELSE IF ~HasKey(answer.body, "access_token") THEN PythonError("KeyError")
    ELSE Return(answer.body)

(************ the credentials file: save_auth 82-96, load_auth 98-109 ******)
\* JSON values as the file holds them: null, or a string in quotes
\* json.dump of an Optional[str]
JsonValue(value) == IF value = None THEN <<"null">> ELSE <<"string", value>>

\* a reader that takes null for the empty string
PyValue_NullAsEmpty(json) == IF json = <<"null">> THEN "" ELSE json[2]

\* json.load of a JSON null or string
PyValue(json) == IF json = <<"null">> THEN None ELSE json[2]

\* data.get(key) on the object json.load returned
Loaded(object, key) == IF HasKey(object, key) THEN PyValue(Get(object, key)) ELSE None

\* the text of a file json.load cannot parse
CorruptJson == {<<"<corrupt>">>}

\* a file with the JSON object `object`; `written` is the five fields
\* save_auth dumped into it, << >> for a file that save_auth did not write
FileWith(object, written) == [exists |-> TRUE, json |-> object, written |-> written]

\* a file written before the new tokens were assigned to the client
SavedAuth_Stale(access, refresh) ==
    FileWith({<<"access_token", JsonValue(access_token)>>,
              <<"refresh_token", JsonValue(refresh_token)>>,
              <<"client_id", JsonValue(client_id)>>,
              <<"client_secret", JsonValue(client_secret)>>,
              <<"redirect_uri", JsonValue(redirect_uri)>>},
             <<access_token, refresh_token, client_id, client_secret, redirect_uri>>)

\* the file save_auth() writes for a client with these tokens: lines 88-96
SavedAuth(access, refresh) ==
    FileWith({<<"access_token", JsonValue(access)>>,
              <<"refresh_token", JsonValue(refresh)>>,
              <<"client_id", JsonValue(client_id)>>,
              <<"client_secret", JsonValue(client_secret)>>,
              <<"redirect_uri", JsonValue(redirect_uri)>>},
             <<access, refresh, client_id, client_secret, redirect_uri>>)

\* one token exchange: the precondition, the POST, and lines 152-159 / 176-183.
\* `writable` says whether open(filename, "w") of save_auth succeeds.
TokenExchange(name, args, rejected, message, data) ==
    /\ op.name = "none"
    /\ Len(token_posts) < MaxExchanges
    /\ IF rejected
       THEN /\ op' = [name |-> name, pc |-> "done", args |-> args, payload |-> NotJson]
            /\ op_result' = ValueError(<<message>>)
            /\ UNCHANGED <<client_vars, token_posts>>
       ELSE \E answer \in TokenAnswers, writable \in BOOLEAN :
            LET tokens == TokensOf(answer)
            IN  /\ token_posts' = Append(token_posts,
                                         [url |-> TOKEN_URL, data |-> data, timeout |-> 30])
                /\ op' = [name |-> name, pc |-> "done", args |-> args, payload |-> answer]
                /\ IF tokens.kind = "raise"
                   THEN /\ op_result' = tokens
                        /\ UNCHANGED client_vars
                   ELSE /\ access_token' = Get(tokens.data, "access_token")
                        /\ refresh_token' = GetOrNone(tokens.data, "refresh_token")
                        /\ session_auth' = Bearer(access_token')
                        /\ auth_file' = IF auto_save /\ writable
                                        THEN SavedAuth(access_token', refresh_token')
                                        ELSE auth_file
                        /\ op_result' = IF auto_save /\ ~writable
                                        THEN PythonError("OSError")
                                        ELSE tokens
                        /\ UNCHANGED <<max_retries, retry_delay, client_id, client_secret,
                                       redirect_uri, auto_save>>
    /\ UNCHANGED <<engine_vars, engine_calls, all_transactions, before_id>>

\* line 140
ExchangeCredentialsMissing ==
    ~Truthy(client_id) \/ ~Truthy(client_secret) \/ ~Truthy(redirect_uri)

exchange_code_for_token ==
    \E code \in {"code_1"} :
        TokenExchange("exchange_code_for_token", [code |-> code],
            ExchangeCredentialsMissing,
            "client_id, client_secret, and redirect_uri are required for token exchange",
            {<<"grant_type", "authorization_code">>, <<"client_id", client_id>>,
             <<"client_secret", client_secret>>, <<"redirect_uri", redirect_uri>>,
             <<"code", code>>})

\* a guard that does not ask for the refresh token
RefreshCredentialsMissing_NoToken == ~Truthy(client_id) \/ ~Truthy(client_secret)

\* line 168
RefreshCredentialsMissing ==
    ~Truthy(client_id) \/ ~Truthy(client_secret) \/ ~Truthy(refresh_token)

refresh_access_token ==
    TokenExchange("refresh_access_token", << >>,
        RefreshCredentialsMissing,
        "client_id, client_secret, and refresh_token are required for token refresh",
        {<<"grant_type", "refresh_token">>, <<"client_id", client_id>>,
         <<"client_secret", client_secret>>, <<"refresh_token", refresh_token>>})

\* is_authentication_recent: line 790, whatever the state of the client
AuthenticationRecent_AfterExchange(max_age_minutes) == token_posts # << >>

AuthenticationRecent(max_age_minutes) == FALSE

is_authentication_recent ==
    /\ op.name = "none"
    /\ \E max_age_minutes \in {0, 5, 100000} :
          /\ op' = [name |-> "is_authentication_recent", pc |-> "done",
                    args |-> [max_age_minutes |-> max_age_minutes], payload |-> << >>]
          /\ op_result' = Return(AuthenticationRecent(max_age_minutes))
    /\ UNCHANGED <<client_vars, engine_vars, token_posts, engine_calls,
                   all_transactions, before_id>>

\* the method has returned or raised and its caller goes on
Returned ==
    /\ op.name # "none" /\ op.pc = "done"
    /\ op' = [name |-> "none", pc |-> "done"]
    /\ engine_calls' = << >>
    /\ op_result' = NoResult
    /\ UNCHANGED <<client_vars, engine_vars, token_posts, all_transactions, before_id>>

(*********** get_transactions 374-423, _get_all_transactions 425-461 *******)
\* the literal 100 of line 454
PageLimit == 100

\* ISO 8601 timestamps for `since` and `before`, or None
Timestamps == {None, "2024-01-01T00:00:00Z"}

\* `limit`: None and 0 are both falsy at line 414; 0 stands for both
Limits == {0, 50}

TransactionArgs ==
    [account_id : {"acc_1"}, limit : Limits, since : Timestamps, before : Timestamps,
     auto_paginate : BOOLEAN, ensure_recent_auth : BOOLEAN]

\* response["transactions"]: `size` transactions with consecutive ids; the
\* service decides how many it sends and where the page starts, whatever the
\* cursor asked for
Page(start, size) == [i \in 1..size |-> [id |-> ToString(start + i - 1)]]
PageSizes == {0, 37, PageLimit, PageLimit + 1}
PageStarts == {1, 51}
Pages == {Page(start, size) : start \in PageStarts, size \in PageSizes}

\* Transaction.from_dict (models.py), the field of interest
TransactionFromDict(tx) == [id |-> tx.id]
Transactions(page) == [i \in 1..Len(page) |-> TransactionFromDict(page[i])]

\* str(limit), line 415
LimitParam(limit) == IF limit # 0 THEN {<<"limit", ToString(limit)>>} ELSE {}

\* a cursor taken from the first transaction of the page
NextCursor_FirstId(transactions) == transactions[1].id

\* transactions[-1].id, line 458
NextCursor(transactions) == transactions[Len(transactions)].id

\* get_transactions up to the point where it enters the pagination loop
get_transactions_with(arguments) ==
    /\ op.name = "none"
    /\ \E args \in arguments :
          IF args.ensure_recent_auth
          THEN \* line 406: ensure_recent_authentication() raises
               /\ \E raised \in RecentAuthenticationErrors : op_result' = raised
               /\ op' = [name |-> "get_transactions", pc |-> "done", args |-> args,
                         payload |-> << >>]
               /\ UNCHANGED <<engine_calls, result, all_transactions, before_id>>
          ELSE IF args.auto_paginate
          THEN \* lines 436-437
               /\ op' = [name |-> "get_transactions", pc |-> "page", args |-> args,
                         payload |-> << >>]
               /\ all_transactions' = << >>
               /\ before_id' = args.before
               /\ UNCHANGED <<engine_calls, result, op_result>>
          ELSE \* lines 412-423
               /\ LET params == {<<"account_id", args.account_id>>}
                                   \cup LimitParam(args.limit)
                                   \cup Param("since", args.since)
                                   \cup Param("before", args.before)
                      calls == <<EngineCall("GET", "/transactions", params, NoBody)>>
                  IN  \/ \E raised \in EngineRaises :
                            EndOperation("get_transactions", args, calls, raised, << >>)
                      \/ \E page \in EngineReturns(Pages) :
                            EndOperation("get_transactions", args, calls, Return(page),
                                         Transactions(page))
               /\ UNCHANGED <<all_transactions, before_id>>
    /\ UNCHANGED <<client_vars, pc, request, attempt, response, log, sent, token_posts>>

get_transactions == get_transactions_with(TransactionArgs)

get_transactions_recent ==
    get_transactions_with({args \in TransactionArgs : args.ensure_recent_auth})

get_transactions_paginated ==
    get_transactions_with({args \in TransactionArgs : args.auto_paginate})

\* a loop that takes every page for the last
PageStep_OnePage(outcome) ==
    /\ result' = outcome
    /\ op' = [op EXCEPT !.pc = "done"]
    /\ IF outcome.kind = "raise"
       THEN /\ op_result' = Propagate(outcome)
            /\ UNCHANGED <<all_transactions, before_id>>
       ELSE /\ all_transactions' = all_transactions \o Transactions(outcome.data)
            /\ op_result' = Return(all_transactions')
            /\ UNCHANGED before_id

\* what one iteration of the loop of lines 439-458 does with the outcome of
\* its request
PageStep(outcome) ==
    /\ result' = outcome
    /\ IF outcome.kind = "raise"
       THEN /\ op' = [op EXCEPT !.pc = "done"]
            /\ op_result' = Propagate(outcome)
            /\ UNCHANGED <<all_transactions, before_id>>
       ELSE LET transactions == Transactions(outcome.data)
                extended == all_transactions \o transactions
                last == Len(transactions) < PageLimit
            IN  IF transactions = << >>
                THEN /\ op' = [op EXCEPT !.pc = "done", !.payload = Append(@, outcome.data)]
                     /\ op_result' = Return(all_transactions)
                     /\ UNCHANGED <<all_transactions, before_id>>
                ELSE /\ op' = [op EXCEPT !.pc = IF last THEN "done" ELSE "page",
                                         !.payload = Append(@, outcome.data)]
                     /\ all_transactions' = extended
                     /\ op_result' = IF last THEN Return(extended) ELSE op_result
                     /\ before_id' = IF last THEN before_id ELSE NextCursor(transactions)

\* the request of one iteration: lines 440-446
PageRequest ==
    /\ op.name = "get_transactions" /\ op.pc = "page"
    /\ Len(engine_calls) < MaxPages
    /\ LET params == {<<"account_id", op.args.account_id>>, <<"limit", "100">>}
                        \cup Param("since", op.args.since)
                        \cup Param("before", before_id)
       IN  engine_calls' =
               Append(engine_calls, EngineCall("GET", "/transactions", params, NoBody))

\* one iteration of `while True` in _get_all_transactions
get_all_transactions_page ==
    /\ PageRequest
    /\ \/ \E raised \in EngineRaises : PageStep(raised)
       \/ \E page \in EngineReturns(Pages) : PageStep(Return(page))
    /\ UNCHANGED <<client_vars, pc, request, attempt, response, log, sent, token_posts>>

(************** get_pots 500-523, get_pot_by_name 541-565 ******************)
\* a name is the sequence of its characters; << >> is the empty string
NoName == <<None>>                  \* None where a name is expected
LowerChar(c) == CASE c = "A" -> "a" [] c = "B" -> "b" [] OTHER -> c

\* str.lower()
lower(name) == [i \in 1..Len(name) |-> LowerChar(name[i])]

\* `needle in name` for strings
Contains(needle, name) ==
    \E i \in 0..(Len(name) - Len(needle)) : SubSeq(name, i + 1, i + Len(needle)) = needle

\* truth value of an Optional[str] name
NameTruthy(name) == name # NoName /\ name # << >>

PotNames == { << >>, <<"a">>, <<"A">>, <<"a", "b">>, <<"A", "B">>, <<"b">> }
RawPots == [id : {"pot_1", "pot_2"}, name : PotNames]
PotLists == SeqsUpTo(RawPots, MaxPots)

\* Pot.from_dict (models.py 178-203), the fields of interest
PotFromDict(pot) == [id |-> pot.id, name |-> pot.name]

\* a filter that compares the names as they are
NameFilter_CaseSensitive(pots, pot_name) ==
    IF NameTruthy(pot_name)
    THEN SelectSeq(pots, LAMBDA pot : NameTruthy(pot.name) /\ Contains(pot_name, pot.name))
    ELSE pots

\* lines 519-521
NameFilter(pots, pot_name) ==
    IF NameTruthy(pot_name)
    THEN SelectSeq(pots, LAMBDA pot :
            NameTruthy(pot.name) /\ Contains(lower(pot_name), lower(pot.name)))
    ELSE pots

\* lines 517-523 after the engine call has returned
PotsOf(raw_pots, pot_name) ==
    NameFilter([i \in 1..Len(raw_pots) |-> PotFromDict(raw_pots[i])], pot_name)

PotsCall(account_id) ==
    EngineCall("GET", "/pots", {<<"current_account_id", account_id>>}, NoBody)

get_pots ==
    /\ op.name = "none"
    /\ \E pot_name \in PotNames \cup {NoName} :
          LET args == [account_id |-> "acc_1", pot_name |-> pot_name]
              calls == <<PotsCall(args.account_id)>>
          IN  \/ \E raised \in EngineRaises :
                    EndOperation("get_pots", args, calls, raised, << >>)
              \/ \E raw_pots \in EngineReturns(PotLists) :
                    EndOperation("get_pots", args, calls, Return(raw_pots),
                                 PotsOf(raw_pots, pot_name))
    /\ UNCHANGED <<client_vars, pc, request, attempt, response, log, sent,
                   token_posts, all_transactions, before_id>>

\* the positions of the pots the loop of lines 560-562 accepts
ExactMatches(pots, pot_name) ==
    {i \in 1..Len(pots) : NameTruthy(pots[i].name) /\ lower(pots[i].name) = lower(pot_name)}

\* lines 559-565 after get_pots has returned `pots`
FindPot(pots, account_id, pot_name) ==
    LET matches == ExactMatches(pots, pot_name)
    IN  IF matches # {}
        THEN Return(pots[CHOOSE i \in matches : \A j \in matches : i <= j])
        ELSE ValueError(<<"No pot found with name '", pot_name, "' in account ", account_id>>)

get_pot_by_name ==
    /\ op.name = "none"
    /\ \E pot_name \in PotNames :
          LET args == [account_id |-> "acc_1", pot_name |-> pot_name]
          IN  /\ engine_calls' = <<PotsCall(args.account_id)>>
              /\ \/ \E raised \in EngineRaises :
                       /\ op' = [name |-> "get_pot_by_name", pc |-> "done", args |-> args,
                                 payload |-> << >>]
                       /\ result' = raised
                       /\ op_result' = Propagate(raised)
                 \/ \E raw_pots \in EngineReturns(PotLists) :
                       /\ op' = [name |-> "get_pot_by_name", pc |-> "done", args |-> args,
                                 payload |-> raw_pots]
                       /\ result' = Return(raw_pots)
                       /\ op_result' = FindPot(PotsOf(raw_pots, pot_name),
                                               args.account_id, pot_name)
    /\ UNCHANGED <<client_vars, pc, request, attempt, response, log, sent,
                   token_posts, all_transactions, before_id>>

(********* deposit_to_pot 567-592, withdraw_from_pot 594-619 ***************)
DedupeIds == {None, "", "d1", "d2"}
Amounts == {1, 500}
TransferArgs ==
    [pot_id : {"pot_1"}, account_id : {"acc_1"}, amount : Amounts, dedupe_id : DedupeIds]

\* what the service answers to a deposit or withdrawal: the pot, as a dict
TransferPayloads == { {}, {<<"k", "a">>} }

\* a body that always has the key dedupe_id
DedupeItem_Always(dedupe_id) == {<<"dedupe_id", dedupe_id>>}

\* lines 589-590 and 616-617
DedupeItem(dedupe_id) == Param("dedupe_id", dedupe_id)

\* the body of lines 585-590 (account_key "source_account_id") and of lines
\* 612-617 (account_key "destination_account_id")
TransferData(account_key, args) ==
    {<<account_key, args.account_id>>, <<"amount", args.amount>>}
        \cup DedupeItem(args.dedupe_id)

\* the operation is one engine call whose payload it returns
Transfer(name, account_key, verb) ==
    /\ op.name = "none"
    /\ \E args \in TransferArgs :
          LET calls == <<EngineCall("PUT", <<"/pots/", args.pot_id, verb>>, NoParams,
                                    TransferData(account_key, args))>>
          IN  \/ \E raised \in EngineRaises :
                    EndOperation(name, args, calls, raised, {})
              \/ \E payload \in EngineReturns(TransferPayloads) :
                    EndOperation(name, args, calls, Return(payload), payload)
    /\ UNCHANGED <<client_vars, pc, request, attempt, response, log, sent,
                   token_posts, all_transactions, before_id>>

deposit_to_pot == Transfer("deposit_to_pot", "source_account_id", "/deposit")

withdraw_from_pot == Transfer("withdraw_from_pot", "destination_account_id", "/withdraw")

(***************************************************************************)
(* Construction of the client and its credentials file: __init__ 28-80,    *)
(* save_auth 82-96, load_auth 98-109.  One path is modelled, the default   *)
(* config/auth.json, and `auth_file` is the file at that path.  Before     *)
(* __init__ has run there is no client: its fields are placeholders.       *)
(***************************************************************************)
\* Python's `a or b`
Or(a, b) == IF Truthy(a) THEN a ELSE b

\* the keyword arguments of __init__ and the MONZO_* variables of the
\* environment; None is an argument not given, a variable not set
InitArgs ==
    [access_token : {None, "", "tok_arg"}, refresh_token : {None, "ref_arg"},
     client_id : {None, "cid_arg"}, client_secret : {None, "sec_arg"},
     redirect_uri : {None, "uri_arg"}]
Environments ==
    [access_token : {None, "tok_env"}, refresh_token : {None}, client_id : {None},
     client_secret : {None}, redirect_uri : {None}]

\* the files the path may hold when the client is constructed: none, one
\* that is not JSON, the empty object, objects with some of the keys, an
\* object with all of them, one with a null
Files ==
    { NoFile,
      FileWith(CorruptJson, << >>),
      FileWith({}, << >>),
      FileWith({<<"access_token", JsonValue("tok_file")>>}, << >>),
      FileWith({<<"client_id", JsonValue("cid_file")>>,
                <<"client_secret", JsonValue("sec_file")>>}, << >>),
      FileWith({<<"access_token", JsonValue(None)>>, <<"client_id", JsonValue("cid_file")>>}, << >>),
      FileWith({<<"access_token", JsonValue("tok_file")>>,
                <<"refresh_token", JsonValue("ref_file")>>,
                <<"client_id", JsonValue("cid_file")>>,
                <<"client_secret", JsonValue("sec_file")>>,
                <<"redirect_uri", JsonValue("uri_file")>>}, << >>) }

\* lines 57-61: `argument or os.getenv(...)` for each field
Resolved(args, env) ==
    [access_token |-> Or(args.access_token, env.access_token),
     refresh_token |-> Or(args.refresh_token, env.refresh_token),
     client_id |-> Or(args.client_id, env.client_id),
     client_secret |-> Or(args.client_secret, env.client_secret),
     redirect_uri |-> Or(args.redirect_uri, env.redirect_uri)]

\* lines 102-106: every field is assigned data.get(key)
LoadedFields(object) ==
    [access_token |-> Loaded(object, "access_token"),
     refresh_token |-> Loaded(object, "refresh_token"),
     client_id |-> Loaded(object, "client_id"),
     client_secret |-> Loaded(object, "client_secret"),
     redirect_uri |-> Loaded(object, "redirect_uri")]

Assign(fields) ==
    /\ access_token' = fields.access_token
    /\ refresh_token' = fields.refresh_token
    /\ client_id' = fields.client_id
    /\ client_secret' = fields.client_secret
    /\ redirect_uri' = fields.redirect_uri

\* line 64: `if not self.access_token and os.path.exists(auth_file)`
LoadsFile(resolved) == ~Truthy(resolved.access_token) /\ auth_file.exists

\* MonzoClient(...): the fields from arguments and environment, then the
\* file if line 64 says so, then the session.  json.load raises on a file that
\* is not JSON; load_auth has no try/except and neither has __init__, so the
\* constructor raises and there is no client.
Construct(args, env) ==
    LET resolved == Resolved(args, env)
    IN  /\ op' = [name |-> "__init__", pc |-> "done", args |-> [args |-> args, env |-> env],
                  payload |-> << >>]
        /\ IF LoadsFile(resolved) /\ auth_file.json = CorruptJson
           THEN /\ Assign(resolved)
                /\ session_auth' = NoHeader
                /\ op_result' = JSONDecodeError
           ELSE /\ Assign(IF LoadsFile(resolved) THEN LoadedFields(auth_file.json)
                                                 ELSE resolved)
                /\ session_auth' = InitialHeader(access_token')
                /\ op_result' = Return(None)
        /\ max_retries' = 3
        /\ retry_delay' = 1
        /\ auto_save' = TRUE
        /\ UNCHANGED <<auth_file, engine_vars, token_posts, engine_calls,
                       all_transactions, before_id>>

\* the first client, or a fresh one once the first has saved its credentials
MonzoClient_init ==
    /\ op.name \in {"none", "save_auth"}
    /\ \E args \in InitArgs, env \in Environments : Construct(args, env)

\* there is a client: the constructor returned, and a method may be called
Constructed ==
    \/ op.name = "__init__" /\ op_result.kind = "return"
    \/ op.name \in {"save_auth", "load_auth"}

\* save_auth(filename): `filename or self._auth_file` is the one path; open()
\* may fail, and then nothing is written
save_auth ==
    /\ Constructed
    /\ \E filename \in {None, "config/auth.json"}, writable \in BOOLEAN :
          /\ op' = [name |-> "save_auth", pc |-> "done",
                    args |-> [args |-> [filename |-> filename], env |-> << >>],
                    payload |-> << >>]
          /\ auth_file' = IF writable THEN SavedAuth(access_token, refresh_token)
                                      ELSE auth_file
          /\ op_result' = IF writable THEN Return(None) ELSE PythonError("OSError")
    /\ UNCHANGED <<access_token, max_retries, retry_delay, refresh_token, client_id,
                   client_secret, redirect_uri, session_auth, auto_save, engine_vars,
                   token_posts, engine_calls, all_transactions, before_id>>

\* load_auth(filename) on a client that has a session: open() raises when
\* there is no file, json.load when it is not JSON, both before any field
\* is assigned; line 109 sets the header whatever the token is
LoadAuth ==
    /\ op' = [name |-> "load_auth", pc |-> "done",
              args |-> [args |-> [filename |-> "config/auth.json"], env |-> << >>],
              payload |-> << >>]
    /\ IF ~auth_file.exists
       THEN /\ op_result' = PythonError("FileNotFoundError")
            /\ UNCHANGED <<access_token, refresh_token, client_id, client_secret,
                           redirect_uri, session_auth>>
       ELSE IF auth_file.json = CorruptJson
       THEN /\ op_result' = JSONDecodeError
            /\ UNCHANGED <<access_token, refresh_token, client_id, client_secret,
                           redirect_uri, session_auth>>
       ELSE /\ Assign(LoadedFields(auth_file.json))
            /\ session_auth' = Bearer(access_token')
            /\ op_result' = Return(None)
    /\ UNCHANGED <<max_retries, retry_delay, auto_save, auth_file, engine_vars,
                   token_posts, engine_calls, all_transactions, before_id>>

\* load_auth() is a method: there is a client to call it on
load_auth == Constructed /\ LoadAuth

(*********************** create_feed_item: 683-723 *************************)
FeedArgs ==
    [account_id : {"acc_1"}, title : {"t1", "t2"}, body : {"b1"},
     image_url : {None, "", "img"}, action_url : {None, "", "act"}]

\* what the service answers to POST /feed: an empty object, or an object with
\* a feed_item of its own
FeedPayloads ==
    { {}, {<<"feed_item", {<<"id", "fi_9">>, <<"title", "t9">>, <<"image_url", "img9">>}>>} }

\* the body of lines 702-711
FeedData(args) ==
    {<<"account_id", args.account_id>>, <<"type", "basic">>,
     <<"params[title]", args.title>>, <<"params[body]", args.body>>}
        \cup Param("params[image_url]", args.image_url)
        \cup Param("params[action_url]", args.action_url)

\* a FeedItem that keeps only the URLs the request body has
FeedItemOf_TruthyUrls(args) ==
    [id |-> "created", account_id |-> args.account_id, title |-> args.title,
     body |-> args.body,
     image_url |-> IF Truthy(args.image_url) THEN args.image_url ELSE None,
     action_url |-> IF Truthy(args.action_url) THEN args.action_url ELSE None,
     created |-> None]

\* FeedItem(id="created", ...) of lines 716-723; `created` has its default
FeedItemOf(args) ==
    [id |-> "created", account_id |-> args.account_id, title |-> args.title,
     body |-> args.body, image_url |-> args.image_url, action_url |-> args.action_url,
     created |-> None]

\* one engine call, then the FeedItem made of the arguments
create_feed_item ==
    /\ op.name = "none"
    /\ \E args \in FeedArgs :
          LET calls == <<EngineCall("POST", "/feed", NoParams, FeedData(args))>>
          IN  \/ \E raised \in EngineRaises :
                    EndOperation("create_feed_item", args, calls, raised, {})
              \/ \E payload \in EngineReturns(FeedPayloads) :
                    EndOperation("create_feed_item", args, calls, Return(payload),
                                 FeedItemOf(args))
    /\ UNCHANGED <<client_vars, pc, request, attempt, response, log, sent,
                   token_posts, all_transactions, before_id>>

(***************************************************************************)
(* The form body of a request: client.py line 248,                         *)
(*   form_data = {k: str(v) if not isinstance(v, dict) else json.dumps(v)  *)
(*                for k, v in data.items()}                                *)
(* A Python value is a record: `type` is its class, `chars` the characters *)
(* of a str (or of a dict key), `int` the number of an int or bool, and    *)
(* `items` the elements of a list or the items of a dict, in order.        *)
(* Strings are sequences of characters, here of letters only, so that      *)
(* neither repr nor json.dumps has anything to escape.                     *)
(***************************************************************************)
PyStr(chars)    == [type |-> "str", chars |-> chars, int |-> 0, items |-> << >>]
PyInt(n)        == [type |-> "int", chars |-> << >>, int |-> n, items |-> << >>]
PyBool(b)       == [type |-> "bool", chars |-> << >>, int |-> IF b THEN 1 ELSE 0, items |-> << >>]
PyNone          == [type |-> "NoneType", chars |-> << >>, int |-> 0, items |-> << >>]
PyList(items)   == [type |-> "list", chars |-> << >>, int |-> 0, items |-> items]
PyDict(items)   == [type |-> "dict", chars |-> << >>, int |-> 0, items |-> items]
Item(key, value) == [type |-> "item", chars |-> key, int |-> 0, items |-> <<value>>]

\* the decimal digits of an int, as int.__repr__ and json.dumps write them
RECURSIVE Digits(_)
Digits(n) ==
    IF n < 0 THEN <<"-">> \o Digits(0 - n)
    ELSE IF n < 10 THEN <<(<<"0", "1", "2", "3", "4", "5", "6", "7", "8", "9">>)[n + 1]>>
    ELSE Digits(n \div 10) \o Digits(n % 10)

\* ", ".join(parts)
RECURSIVE Join(_)
Join(parts) ==
    IF parts = << >> THEN << >>
    ELSE IF Len(parts) = 1 THEN parts[1]
    ELSE parts[1] \o <<",", " ">> \o Join(Tail(parts))

\* repr(v): a str in single quotes, True/False/None, a list in brackets and
\* a dict in braces with the repr of every element
RECURSIVE repr(_)
repr(v) ==
    CASE v.type = "str"      -> <<"'">> \o v.chars \o <<"'">>
      [] v.type = "int"      -> Digits(v.int)
      [] v.type = "bool"     -> IF v.int = 1 THEN <<"T", "r", "u", "e">>
                                             ELSE <<"F", "a", "l", "s", "e">>
      [] v.type = "NoneType" -> <<"N", "o", "n", "e">>
      [] v.type = "list"     ->
            <<"[">> \o Join([i \in 1..Len(v.items) |-> repr(v.items[i])]) \o <<"]">>
      [] v.type = "dict"     ->
            <<"{">> \o Join([i \in 1..Len(v.items) |->
                               <<"'">> \o v.items[i].chars \o <<"'", ":", " ">>
                                   \o repr(v.items[i].items[1])]) \o <<"}">>

\* str(v): the characters of a str, repr(v) for every other class
str(v) == IF v.type = "str" THEN v.chars ELSE repr(v)

\* json.dumps(v) with the default separators: a str in double quotes,
\* true/false/null, arrays and objects with json.dumps of every element
RECURSIVE json_dumps(_)
json_dumps(v) ==
    CASE v.type = "str"      -> <<"\"">> \o v.chars \o <<"\"">>
      [] v.type = "int"      -> Digits(v.int)
      [] v.type = "bool"     -> IF v.int = 1 THEN <<"t", "r", "u", "e">>
                                             ELSE <<"f", "a", "l", "s", "e">>
      [] v.type = "NoneType" -> <<"n", "u", "l", "l">>
      [] v.type = "list"     ->
            <<"[">> \o Join([i \in 1..Len(v.items) |-> json_dumps(v.items[i])]) \o <<"]">>
      [] v.type = "dict"     ->
            <<"{">> \o Join([i \in 1..Len(v.items) |->
                               <<"\"">> \o v.items[i].chars \o <<"\"", ":", " ">>
                                   \o json_dumps(v.items[i].items[1])]) \o <<"}">>

\* the comprehension of line 248 over the items of data:
\* `str(v) if not isinstance(v, dict) else json.dumps(v)` for every value
FormData(data) ==
    {<<item[1], IF item[2].type # "dict" THEN str(item[2]) ELSE json_dumps(item[2])>> :
        item \in data}

\* values a caller may put in a body: scalars, lists of scalars, and
\* mappings of scalars and lists (the receipt of add_transaction_receipt,
\* client.py 835-847, is such a mapping)
MaxItems == 2
Scalars == {PyStr(<<"a">>), PyStr(<<"t", "x">>), PyInt(0), PyInt(120), PyBool(TRUE), PyNone}
FormValues ==
    LET total == <<"t", "o", "t", "a", "l">>
        items == <<"i", "t", "e", "m", "s">>
    IN  Scalars
        \cup {PyList(elements) :
                 elements \in SeqsUpTo({PyStr(<<"a">>), PyInt(7), PyBool(FALSE)}, MaxItems)}
        \cup {PyDict(<<Item(total, value)>>) : value \in {PyInt(120), PyStr(<<"a">>)}}
        \cup {PyDict(<<Item(total, PyInt(120)), Item(items, list)>>) :
                 list \in {PyList(<<PyStr(<<"a">>)>>), PyList(<<PyInt(7), PyBool(FALSE)>>)}}
FormBodies ==
    {{<<"transaction_id", PyStr(<<"t", "x">>)>>, <<"receipt", receipt>>} : receipt \in FormValues}
    \cup {{<<"account_id", account_id>>, <<"tags", tags>>} :
              account_id \in Scalars, tags \in FormValues}

\* one request body taken through the conversion of line 248
form_data ==
    /\ op.name = "none"
    /\ \E data \in FormBodies :
          /\ op' = [name |-> "form_data", pc |-> "done", args |-> [data |-> data],
                    payload |-> << >>]
          /\ op_result' = Return(FormData(data))
    /\ UNCHANGED <<client_vars, engine_vars, token_posts, engine_calls,
                   all_transactions, before_id>>

(***************************************************************************)
(* The decoders of monzo/models.py.  A payload is the dict of one resource *)
(* as the service sends it; from_dict reads a required field with          *)
(* data[key], which raises KeyError when the key is absent, and any other  *)
(* field with data.get(key) or data.get(key, default).  The keyword        *)
(* arguments of cls(...) are evaluated in the order they are written: the  *)
(* first absent required key is the one the KeyError names, and in every   *)
(* decoder the datetime fields come after the required ones.               *)
(***************************************************************************)
KeyError(key) == [PythonError("KeyError") EXCEPT !.message = key]

\* the first key of `keys` that data lacks, None when it has them all
RECURSIVE FirstMissing(_, _)
FirstMissing(data, keys) ==
    IF keys = << >> THEN None
    ELSE IF ~HasKey(data, keys[1]) THEN keys[1]
    ELSE FirstMissing(data, Tail(keys))

\* data.get(key, default)
GetOr(data, key, default) == IF HasKey(data, key) THEN Get(data, key) ELSE default

\* {key: data[key] for key in keys} and {key: data.get(key) for key in keys}
Required(data, keys) == [key \in keys |-> Get(data, key)]
Optional(data, keys) == [key \in keys |-> GetOrNone(data, key)]

\* `datetime.fromisoformat(data[key]) if data.get(key) else None`: the
\* datetime of an ISO 8601 string, None for a key that is absent or falsy
\* (written <<None>>, a datetime being a tuple)
Datetime(data, key) ==
    IF HasKey(data, key) /\ Truthy(Get(data, key))
    THEN <<"datetime", Get(data, key)>>
    ELSE <<None>>

\* the ValueError fromisoformat raises for the first of `keys` whose value is
\* truthy and no ISO 8601 string; NoResult when there is none
RECURSIVE DatetimeError(_, _)
DatetimeError(data, keys) ==
    IF keys = << >> THEN NoResult
    ELSE IF /\ HasKey(data, keys[1]) /\ Truthy(Get(data, keys[1]))
            /\ Get(data, keys[1]) # "2024-01-01T10:00:00"
    THEN ValueError(<<"Invalid isoformat string: ", Get(data, keys[1])>>)
    ELSE DatetimeError(data, Tail(keys))

\* Account.from_dict: models.py 21-42; `balance=data.get("balance", 0)`
Account_from_dict(data) ==
    LET missing == FirstMissing(data, <<"id", "currency", "type">>)
    IN  IF missing # None THEN KeyError(missing)
        ELSE IF DatetimeError(data, <<"created">>) # NoResult
        THEN DatetimeError(data, <<"created">>)
        ELSE Return(Required(data, {"id", "currency", "type"})
                    @@ Optional(data, {"name", "description"})
                    @@ [balance |-> GetOr(data, "balance", 0),
                        created |-> Datetime(data, "created"),
                        closed |-> GetOr(data, "closed", FALSE)])

\* Balance.from_dict: models.py 57-75
Balance_from_dict(data) ==
    LET missing == FirstMissing(data, <<"balance", "currency", "spend_today">>)
    IN  IF missing # None THEN KeyError(missing)
        ELSE Return(Required(data, {"balance", "currency", "spend_today"})
                    @@ Optional(data, {"local_currency", "local_exchange_rate", "local_spend"}))

\* Transaction.from_dict: models.py 113-160
Transaction_from_dict(data) ==
    LET missing == FirstMissing(data, <<"id", "amount", "currency", "description", "category">>)
    IN  IF missing # None THEN KeyError(missing)
        ELSE IF DatetimeError(data, <<"created", "settled">>) # NoResult
        THEN DatetimeError(data, <<"created", "settled">>)
        ELSE Return(Required(data, {"id", "amount", "currency", "description", "category"})
                    @@ Optional(data,
                         {"merchant", "notes", "account_balance", "local_amount",
                          "local_currency", "metadata", "attachments", "international",
                          "top_up", "hide_amount", "can_add_to_tab",
                          "can_be_excluded_from_breakdown", "can_be_made_subscription",
                          "can_split_the_bill", "amount_is_pending", "atm_fees_detailed",
                          "parent_account_id", "scheme", "dedupe_id", "originator",
                          "include_in_spending", "can_watermark", "is_load",
                          "settled_amount", "settled_currency"})
                    @@ [created |-> Datetime(data, "created"),
                        settled |-> Datetime(data, "settled")])

\* Pot.from_dict: models.py 178-203
Pot_from_dict(data) ==
    LET missing == FirstMissing(data, <<"id", "name", "balance", "currency", "style">>)
    IN  IF missing # None THEN KeyError(missing)
        ELSE IF DatetimeError(data, <<"created", "updated">>) # NoResult
        THEN DatetimeError(data, <<"created", "updated">>)
        ELSE Return(Required(data, {"id", "name", "balance", "currency", "style"})
                    @@ Optional(data, {"goal_amount", "isa_wrapper"})
                    @@ [deleted |-> GetOr(data, "deleted", FALSE),
                        created |-> Datetime(data, "created"),
                        updated |-> Datetime(data, "updated")])

\* Webhook.from_dict: models.py 217-235
Webhook_from_dict(data) ==
    LET missing == FirstMissing(data, <<"id", "account_id", "url">>)
    IN  IF missing # None THEN KeyError(missing)
        ELSE IF DatetimeError(data, <<"created">>) # NoResult
        THEN DatetimeError(data, <<"created">>)
        ELSE Return(Required(data, {"id", "account_id", "url"})
                    @@ [webhook_type |-> GetOrNone(data, "type"),
                        created |-> Datetime(data, "created")])

\* payloads of a resource: any subset of its items, with or without a
\* "created" that is an ISO string, the empty string or no date at all
Payloads(cls) ==
    LET items ==
            CASE cls = "Account" ->
                    {<<"id", "acc_1">>, <<"name", "n">>, <<"currency", "GBP">>,
                     <<"balance", 100>>, <<"type", "uk_retail">>, <<"description", "d">>,
                     <<"closed", TRUE>>}
              [] cls = "Balance" ->
                    {<<"balance", 100>>, <<"currency", "GBP">>, <<"spend_today", 0>>,
                     <<"local_currency", "EUR">>, <<"local_exchange_rate", 1>>,
                     <<"local_spend", 5>>}
              [] cls = "Transaction" ->
                    {<<"id", "tx_1">>, <<"amount", 250>>, <<"currency", "GBP">>,
                     <<"description", "d">>, <<"category", "general">>, <<"notes", "n">>,
                     <<"settled", "2024-01-01T10:00:00">>}
              [] cls = "Pot" ->
                    {<<"id", "pot_1">>, <<"name", "n">>, <<"balance", 100>>,
                     <<"currency", "GBP">>, <<"style", "beach_ball">>, <<"deleted", TRUE>>,
                     <<"goal_amount", 1000>>}
              [] cls = "Webhook" ->
                    {<<"id", "wh_1">>, <<"account_id", "acc_1">>, <<"url", "u">>,
                     <<"type", "transaction.created">>}
        createds ==
            IF cls = "Balance" THEN { {} }
            ELSE { {}, {<<"created", "2024-01-01T10:00:00">>}, {<<"created", "">>},
                   {<<"created", "yesterday">>} }
    IN  {present \cup created : present \in SUBSET items, created \in createds}

\* cls.from_dict(data) called once
from_dict ==
    /\ op.name = "none"
    /\ \E cls \in {"Account", "Balance", "Transaction", "Pot", "Webhook"} :
       \E data \in Payloads(cls) :
          /\ op' = [name |-> "from_dict", pc |-> "done",
                    args |-> [cls |-> cls, data |-> data], payload |-> << >>]
          /\ op_result' = CASE cls = "Account"     -> Account_from_dict(data)
                            [] cls = "Balance"     -> Balance_from_dict(data)
                            [] cls = "Transaction" -> Transaction_from_dict(data)
                            [] cls = "Pot"         -> Pot_from_dict(data)
                            [] cls = "Webhook"     -> Webhook_from_dict(data)
    /\ UNCHANGED <<client_vars, engine_vars, token_posts, engine_calls,
                   all_transactions, before_id>>

(***************************************************************************)
(* Properties of the request engine                                        *)
(***************************************************************************)
LastEv == log[Len(log)]

\* number of attempts made before the event at position i of the log, i.e.
\* the value of `attempt` in the iteration that logged it
AttemptIndex(i) == Len(SelectSeq(SubSeq(log, 1, i - 1), IsAttemptEv))

IsHttp(e, status_code) == e.ev = "http" /\ e.status_code = status_code
Is2xx(e) == e.ev = "http" /\ 200 <= e.status_code /\ e.status_code < 300
Is5xx(e) == e.ev = "http" /\ e.status_code >= 500
AllAttempts(P(_)) == \A i \in 1..Len(log) : IsAttemptEv(log[i]) => P(log[i])
Is429(e) == IsHttp(e, 429)
IsNetworkFailure(e) == e.ev \in NetworkFailures

\* C1: while the access token is unset (None or empty) no engine call, for
\* any method and endpoint, enters the retry loop: the call ends with the
\* Authentication error "No access token provided" having made no HTTP
\* attempt and no sleep.
C1_NoTokenNoAttempt ==
    /\ pc = "loop" => Truthy(access_token)
    /\ (pc = "done" /\ ~Truthy(access_token)) =>
          /\ result = MonzoAuthenticationError("No access token provided", NoneData)
          /\ NumAttempts = 0
          /\ NumSleeps = 0

C1_Witness ==
    /\ pc = "done" /\ access_token = ""
    /\ request.method = "PUT" /\ request.endpoint = "/pots/p/deposit"
    /\ result.exc = "MonzoAuthenticationError" /\ log = << >>

\* C2 as stated: for every max_retries >= 0 a finished engine call has made
\* at least 1 and at most max_retries + 1 HTTP attempts.
C2_Original ==
    (pc = "done" /\ max_retries >= 0) =>
        (1 <= NumAttempts /\ NumAttempts <= max_retries + 1)

\* C2 amended: for every max_retries >= 0 an engine call never makes more
\* than max_retries + 1 HTTP attempts, and a finished call made with an
\* access token set has made at least 1.
C2_AttemptBounds ==
    max_retries >= 0 =>
        /\ NumAttempts <= max_retries + 1
        /\ (pc = "done" /\ Truthy(access_token)) => 1 <= NumAttempts

C2_Witness ==
    /\ pc = "done" /\ max_retries >= 2
    /\ NumAttempts = max_retries + 1
    /\ log[1].ev = "http" /\ LastEv.ev \in NetworkFailures

\* C3: a 401 response is the last event of its call, at any attempt index
\* (no retry, no sleep after it), and when its body is JSON the call ends
\* with the Authentication error carrying the parsed body.
C3_401Immediate ==
    \A i \in 1..Len(log) :
        IsHttp(log[i], 401) =>
            /\ i = Len(log)
            /\ pc # "loop"
            /\ IsJson(response.content) =>
                  result = [kind |-> "raise", exc |-> "MonzoAuthenticationError",
                            message |-> "Invalid access token", status_code |-> 401,
                            data |-> json_loads(response.content)]

C3_Witness ==
    /\ pc = "done" /\ Len(log) = 3
    /\ IsHttp(LastEv, 401) /\ response.content = "{\"k\":\"b\"}"
    /\ attempt < max_retries
    /\ result.exc = "MonzoAuthenticationError" /\ result.data = {<<"k", "b">>}

\* the last response is a 2xx whose payload can be returned (no content, or
\* JSON content) and every attempt before it satisfies P
ReturnableAfter(P(_)) ==
    /\ Is2xx(LastEv)
    /\ ~HasContent(response.content) \/ IsJson(response.content)
    /\ \A i \in 1..(Len(log) - 1) : IsAttemptEv(log[i]) => P(log[i])

\* C4 as stated: a finished call whose every attempt got 429 has made exactly
\* max_retries + 1 attempts and max_retries sleeps and ends with RateLimit
\* carrying the parsed body; a call that got k responses of 429 and then a
\* 2xx has returned that payload after k + 1 attempts and k sleeps.
C4_Original ==
    (pc = "done" /\ max_retries >= 0 /\ NumAttempts >= 1) =>
        /\ AllAttempts(Is429) =>
              /\ NumAttempts = max_retries + 1
              /\ NumSleeps = max_retries
              /\ result.exc = "MonzoRateLimitError"
              /\ result.data = OrEmpty(json_loads(response.content))
        /\ ReturnableAfter(Is429) =>
              /\ result = Return(IF HasContent(response.content)
                                 THEN json_loads(response.content) ELSE {})
              /\ NumSleeps = NumAttempts - 1

\* C5 as stated: a finished call whose every attempt got a 5xx has made
\* exactly max_retries + 1 attempts and ends with the generic API error
\* carrying the last status and the parsed body (the empty mapping when the
\* response has no content); a 2xx after 5xx responses is returned.
C5_Original ==
    (pc = "done" /\ max_retries >= 0 /\ NumAttempts >= 1) =>
        /\ AllAttempts(Is5xx) =>
              /\ NumAttempts = max_retries + 1
              /\ result.kind = "raise"
              /\ result.exc = "MonzoAPIError"
              /\ result.status_code = response.status_code
              /\ result.data = IF HasContent(response.content)
                               THEN OrEmpty(json_loads(response.content)) ELSE {}
        /\ ReturnableAfter(Is5xx) =>
              result = Return(IF HasContent(response.content)
                              THEN json_loads(response.content) ELSE {})

\* C6: a 400 response is the last event of its call whatever budget remains
\* (no retry, no sleep after it), and when its body is JSON the call ends
\* with the Validation error carrying the parsed body.
C6_400Immediate ==
    \A i \in 1..Len(log) :
        IsHttp(log[i], 400) =>
            /\ i = Len(log)
            /\ pc # "loop"
            /\ IsJson(response.content) =>
                  result = [kind |-> "raise", exc |-> "MonzoValidationError",
                            message |-> "Invalid request", status_code |-> 400,
                            data |-> json_loads(response.content)]

C6_Witness ==
    /\ pc = "done" /\ Len(log) = 3
    /\ IsHttp(LastEv, 400) /\ response.content = "{\"k\":\"a\"}"
    /\ attempt < max_retries
    /\ result.exc = "MonzoValidationError" /\ result.data = {<<"k", "a">>}

\* C7 as stated: a response whose status is not 2xx and none of 401, 429,
\* 400, 5xx is the last event of its call and the call ends with the generic
\* API error carrying that status; it is never returned as a success value.
C7_Original ==
    \A i \in 1..Len(log) :
        ( /\ log[i].ev = "http"
          /\ ~Is2xx(log[i])
          /\ log[i].status_code \notin {401, 429, 400}
          /\ log[i].status_code < 500 ) =>
            /\ i = Len(log)
            /\ pc # "loop"
            /\ result.kind = "raise"
            /\ result.exc = "MonzoAPIError"
            /\ result.status_code = log[i].status_code

\* C8: a connection error or timeout on an attempt with index below
\* max_retries is followed by a sleep and the call goes on; on the attempt
\* with index max_retries it ends the call with the generic API error about
\* retry exhaustion, without HTTP status.  A finished call never ends on a
\* sleep, and one whose every attempt was a network failure has made exactly
\* max_retries + 1 attempts and max_retries sleeps.
C8_NetworkFailureRetried ==
    /\ \A i \in 1..Len(log) :
          IsNetworkFailure(log[i]) =>
              IF AttemptIndex(i) < max_retries
              THEN i < Len(log) /\ log[i + 1].ev = "sleep"
              ELSE /\ i = Len(log)
                   /\ pc # "loop"
                   /\ result = [kind |-> "raise", exc |-> "MonzoAPIError",
                                message |-> "Request failed after retries",
                                status_code |-> NoStatus, data |-> {}]
    /\ (pc # "loop" /\ log # << >>) => LastEv.ev # "sleep"
    /\ (pc = "done" /\ NumAttempts >= 1 /\ AllAttempts(IsNetworkFailure)) =>
          (NumAttempts = max_retries + 1 /\ NumSleeps = max_retries)

C8_Witness ==
    /\ pc = "done" /\ max_retries >= 2
    /\ AllAttempts(IsNetworkFailure)
    /\ NumAttempts = max_retries + 1 /\ NumSleeps = max_retries
    /\ result.exc = "MonzoAPIError" /\ result.status_code = NoStatus

\* C9: a transport failure other than connection error or timeout is the
\* last event of its call whatever budget remains: the call ends at once
\* with the generic API error, no retry and no sleep follow.
C9_OtherFailureImmediate ==
    \A i \in 1..Len(log) :
        log[i].ev \in OtherFailures =>
            /\ i = Len(log)
            /\ pc # "loop"
            /\ result = [kind |-> "raise", exc |-> "MonzoAPIError",
                         message |-> "Request failed",
                         status_code |-> NoStatus, data |-> {}]

C9_Witness ==
    /\ pc = "done" /\ Len(log) = 3
    /\ LastEv.ev = "RequestException"
    /\ attempt < max_retries
    /\ result.exc = "MonzoAPIError"

\* C10 as stated: a 2xx response is the last event of its call and the call
\* returns the empty mapping when the response has no content and the parsed
\* JSON payload otherwise.
C10_Original ==
    \A i \in 1..Len(log) :
        Is2xx(log[i]) =>
            /\ i = Len(log)
            /\ pc # "loop"
            /\ result = Return(IF HasContent(response.content)
                               THEN json_loads(response.content) ELSE {})

\* C10 amended: a 2xx response is the last event of its call (no further
\* attempt or sleep): the call returns the empty mapping when the response
\* has no content, returns the parsed payload unchanged when the content is
\* JSON, and raises (generic API error or the JSON decoding error) when the
\* content is not JSON.
C10_SuccessReturns ==
    \A i \in 1..Len(log) :
        Is2xx(log[i]) =>
            /\ i = Len(log)
            /\ pc # "loop"
            /\ ~HasContent(response.content) => result = Return({})
            /\ (HasContent(response.content) /\ IsJson(response.content)) =>
                  result = Return(json_loads(response.content))
            /\ (HasContent(response.content) /\ ~IsJson(response.content)) =>
                  /\ result.kind = "raise"
                  /\ result.exc \in {"MonzoAPIError", "JSONDecodeError"}

C10_Witness ==
    /\ pc = "done" /\ Len(log) = 3
    /\ IsHttp(LastEv, 204) /\ response.content = ""
    /\ request.method = "DELETE"
    /\ attempt < max_retries
    /\ result = Return({})

\* the sleeps of the call, in order
Sleeps == SelectSeq(log, IsSleepEv)

\* C11: the sleep that follows the failed attempt with index k lasts exactly
\* retry_delay * 2^k, whatever the failure (429, 5xx, network failure); so
\* the first sleep of a call lasts retry_delay and every later one twice the
\* one before it.
C11_ExponentialBackoff ==
    /\ \A i \in 1..Len(log) :
          IsSleepEv(log[i]) =>
              /\ i > 1 /\ IsAttemptEv(log[i - 1])
              /\ log[i].wait = retry_delay * (2 ^ AttemptIndex(i - 1))
    /\ Len(Sleeps) >= 1 => Sleeps[1].wait = retry_delay
    /\ \A j \in 2..Len(Sleeps) : Sleeps[j].wait = 2 * Sleeps[j - 1].wait

C11_Witness ==
    /\ retry_delay = 2 /\ Len(Sleeps) >= 2
    /\ Is429(log[1]) /\ log[2].wait = 2
    /\ IsNetworkFailure(log[3]) /\ log[4].wait = 4

\* C12: every request the engine hands to session.request is sent
\* form-urlencoded if and only if (method = PUT and the body is non-empty) or
\* (method = POST, endpoint exactly /webhooks or /feed, and the body is
\* non-empty); every other request with a body sends it as JSON.
C12_EncodingPolicy ==
    \A i \in 1..Len(sent) :
        LET r == sent[i]
            form == \/ r.method = "PUT" /\ r.data \notin {NoneData, {}}
                    \/ /\ r.method = "POST"
                       /\ r.endpoint \in {"/webhooks", "/feed"}
                       /\ r.data \notin {NoneData, {}}
        IN  /\ r.encoding = "form" <=> form
            /\ (~form /\ r.data # NoneData) => r.encoding = "json"
            /\ r.method = request.method /\ r.endpoint = request.endpoint /\ r.data = request.data

C12_Witness ==
    /\ Len(sent) = 2
    /\ sent[1].method = "POST" /\ sent[1].endpoint = "/attachment/upload"
    /\ sent[1].data = {<<"k", "v">>} /\ sent[1].encoding = "json"
    /\ sent[2] = sent[1]

C12_WitnessForm ==
    /\ Len(sent) >= 1
    /\ sent[1].method = "PUT" /\ sent[1].endpoint = "/transaction-receipts"
    /\ sent[1].encoding = "form"

(***************************************************************************)
(* The resource operations, each called once on a client without OAuth     *)
(* credentials, with or without an access token.                           *)
(***************************************************************************)
InitOps ==
    /\ access_token \in {None, "tok_a"}
    /\ max_retries = 3
    /\ retry_delay = 1
    /\ refresh_token = None
    /\ client_id = None
    /\ client_secret = None
    /\ redirect_uri = None
    /\ session_auth = InitialHeader(access_token)
    /\ auto_save = FALSE
    /\ auth_file = NoFile
    /\ EngineIdle
    /\ NoOperation

NextOps ==
    \/ get_accounts
    \/ get_transactions
    \/ get_all_transactions_page
    \/ get_pots
    \/ get_pot_by_name
    \/ deposit_to_pot
    \/ withdraw_from_pot
    \/ create_feed_item

SpecOps == InitOps /\ [][NextOps]_vars

(***************************************************************************)
(* The OAuth2 methods, called one after the other on a client constructed  *)
(* with any combination of credentials.                                    *)
(***************************************************************************)
InitAuth ==
    /\ access_token \in {None, "tok_a"}
    /\ refresh_token \in {None, "ref_a"}
    /\ client_id \in {None, "cid"}
    /\ client_secret \in {None, "", "sec"}
    /\ redirect_uri \in {None, "uri"}
    /\ auto_save \in BOOLEAN
    /\ max_retries = 3
    /\ retry_delay = 1
    /\ session_auth = InitialHeader(access_token)
    /\ auth_file = NoFile
    /\ EngineIdle
    /\ NoOperation

NextAuth ==
    \/ exchange_code_for_token
    \/ refresh_access_token
    \/ ensure_recent_authentication
    \/ get_transactions_recent
    \/ is_authentication_recent
    \/ Returned

SpecAuth == InitAuth /\ [][NextAuth]_vars

(***************************************************************************)
(* Properties of the resource operations                                   *)
(***************************************************************************)
\* the positions of xs whose element satisfies P, and the j-th of them
Positions(xs, P(_)) == {i \in 1..Len(xs) : P(xs[i])}
NthPosition(xs, P(_), j) ==
    CHOOSE i \in Positions(xs, P) : Cardinality({k \in Positions(xs, P) : k <= i}) = j

\* ys consists of the elements of xs that satisfy P, in the order of xs,
\* each seen through f
IsFilteredImage(ys, xs, P(_), f(_)) ==
    /\ Len(ys) = Cardinality(Positions(xs, P))
    /\ \A j \in 1..Len(ys) : ys[j] = f(xs[NthPosition(xs, P, j)])

OpReturned(name) == op.name = name /\ op.pc = "done" /\ op_result.kind = "return"

C15_OpenAccount(account) == account.closed \in {"absent", "false"}
C15_Decoded(account) == [id |-> account.id, closed |-> account.closed = "true"]

\* C15: get_accounts makes one engine call, GET /accounts without query
\* parameters or body, and returns exactly the accounts of the response whose
\* closed flag is false or absent, in the order of the response; it never
\* returns an account flagged closed.
C15_OpenAccountsInOrder ==
    op.name = "get_accounts" =>
        /\ engine_calls = <<EngineCall("GET", "/accounts", NoParams, NoBody)>>
        /\ op_result.kind = "return" =>
              /\ IsFilteredImage(op_result.data, op.payload, C15_OpenAccount, C15_Decoded)
              /\ \A j \in 1..Len(op_result.data) : ~op_result.data[j].closed

C15_Witness ==
    /\ OpReturned("get_accounts")
    /\ Len(op.payload) = 3
    /\ op.payload[1].closed = "absent" /\ op.payload[1].id = "acc_2"
    /\ op.payload[2].closed = "true"
    /\ op.payload[3].closed = "false" /\ op.payload[3].id = "acc_1"
    /\ Len(op_result.data) = 2

RECURSIVE Concat(_)
Concat(pages) == IF pages = << >> THEN << >> ELSE Head(pages) \o Concat(Tail(pages))

AutoPaginating ==
    op.name = "get_transactions" /\ op.args.auto_paginate /\ ~op.args.ensure_recent_auth

C14_ErrorsPropagate ==
    result.kind = "raise" =>
        /\ op.name # "none" /\ op.pc = "done"
        /\ op_result = result
        /\ AutoPaginating => Len(engine_calls) = Len(op.payload) + 1

C14_Witness ==
    /\ AutoPaginating /\ op.pc = "done"
    /\ Len(engine_calls) = 2
    /\ Len(op.payload) = 1
    /\ Len(all_transactions) = 100
    /\ result.kind = "raise"
    /\ op_result = MonzoRateLimitError("Rate limit exceeded", {<<"k", "b">>})

C16_EqualIgnoringCase(name, other) == lower(name) = lower(other)

\* C16: get_pot_by_name(account, name) returns a pot of the account's pot list
\* whose name equals `name` ignoring case whenever the list has such a pot,
\* and otherwise raises ValueError with the name as given in its message; it
\* never returns a pot whose name merely contains `name`.
C16_Original ==
    (op.name = "get_pot_by_name" /\ result.kind = "return") =>
        LET pots == op.payload
            name == op.args.pot_name
        IN  IF \E i \in 1..Len(pots) : C16_EqualIgnoringCase(pots[i].name, name)
            THEN /\ op_result.kind = "return"
                 /\ C16_EqualIgnoringCase(op_result.data.name, name)
                 /\ \E i \in 1..Len(pots) : op_result.data = PotFromDict(pots[i])
            ELSE /\ op_result.exc = "ValueError"
                 /\ Len(op_result.message) = 4
                 /\ op_result.message[2] = name

\* what holds of get_pot_by_name for every non-empty name
C16_NonEmptyName ==
    (op.name = "get_pot_by_name" /\ op.args.pot_name # << >>) => C16_Original

C17_Any(pot) == TRUE
C17_Matches(pot) ==
    Contains(lower(op.args.pot_name), lower(pot.name))

\* C17: get_pots(account, pot_name) with a non-empty pot_name returns exactly
\* the pots of the response whose name contains pot_name ignoring case, in
\* the order of the response (the empty list when none does, without error);
\* with pot_name absent it returns every pot of the response in that order.
C17_SubstringFilter ==
    (op.name = "get_pots" /\ result.kind = "return") =>
        /\ op_result.kind = "return"
        /\ op.args.pot_name \notin {NoName, << >>} =>
              IsFilteredImage(op_result.data, op.payload, C17_Matches, PotFromDict)
        /\ op.args.pot_name = NoName =>
              IsFilteredImage(op_result.data, op.payload, C17_Any, PotFromDict)

C17_Witness ==
    /\ OpReturned("get_pots")
    /\ op.args.pot_name = <<"A">>
    /\ Len(op.payload) = 2
    /\ op.payload[1].name = <<"b">>
    /\ op.payload[2].name = <<"a", "b">>
    /\ Len(op_result.data) = 1

C17_WitnessNone ==
    /\ OpReturned("get_pots")
    /\ op.args.pot_name = <<"A", "B">>
    /\ Len(op.payload) = 2
    /\ op_result.data = << >>

C18_Keys(data) == {item[1] : item \in data}

\* C18: deposit_to_pot and withdraw_from_pot hand the engine a body with
\* amount and source_account_id (deposit) or destination_account_id
\* (withdraw); called with a dedupe token the body has the key dedupe_id with
\* exactly that token, called without one it has no key dedupe_id.
C18_DedupeInBody ==
    op.name \in {"deposit_to_pot", "withdraw_from_pot"} =>
        LET data == engine_calls[1].data
            account_key == IF op.name = "deposit_to_pot"
                           THEN "source_account_id" ELSE "destination_account_id"
            token == op.args.dedupe_id
        IN  /\ Len(engine_calls) = 1
            /\ engine_calls[1].method = "PUT"
            /\ <<"amount", op.args.amount>> \in data
            /\ <<account_key, op.args.account_id>> \in data
            /\ IF token \in {"d1", "d2"}
               THEN /\ <<"dedupe_id", token>> \in data
                    /\ C18_Keys(data) = {account_key, "amount", "dedupe_id"}
               ELSE C18_Keys(data) = {account_key, "amount"}

C18_Witness ==
    /\ OpReturned("withdraw_from_pot")
    /\ op.args.dedupe_id = "d2"
    /\ <<"dedupe_id", "d2">> \in engine_calls[1].data
    /\ <<"destination_account_id", "acc_1">> \in engine_calls[1].data

C18_WitnessNoToken ==
    /\ OpReturned("deposit_to_pot")
    /\ op.args.dedupe_id = None
    /\ engine_calls[1].data = {<<"source_account_id", "acc_1">>, <<"amount", 500>>}

\* C26: create_feed_item makes one engine call POST /feed; when the call
\* succeeds it returns a FeedItem with id "created" whose account_id, title,
\* body, image_url and action_url are the arguments, whatever the response
\* holds; when the call fails it raises the error of the engine and returns
\* no FeedItem.
C26_SyntheticFeedItem ==
    op.name = "create_feed_item" =>
        /\ Len(engine_calls) = 1
        /\ engine_calls[1].method = "POST" /\ engine_calls[1].endpoint = "/feed"
        /\ IF result.kind = "return"
           THEN /\ op_result.kind = "return"
                /\ op_result.data.id = "created"
                /\ op_result.data.account_id = op.args.account_id
                /\ op_result.data.title = op.args.title
                /\ op_result.data.body = op.args.body
                /\ op_result.data.image_url = op.args.image_url
                /\ op_result.data.action_url = op.args.action_url
           ELSE /\ result.kind = "raise"
                /\ op_result = result

C26_Witness ==
    /\ OpReturned("create_feed_item")
    /\ op.payload # {}
    /\ op.args.image_url = "" /\ op.args.action_url = "act"
    /\ op_result.data.id = "created" /\ op_result.data.image_url = ""

C26_WitnessFailure ==
    /\ op.name = "create_feed_item"
    /\ op_result.exc = "MonzoRateLimitError"

(***************************************************************************)
(* Properties of the OAuth2 methods                                        *)
(***************************************************************************)
Starts(name) == op.name = "none" /\ op'.name = name

AllSet(credentials) == \A c \in credentials : c \notin {None, ""}
C19_MissingCredentials ==
    ValueError(<<"client_id, client_secret, and redirect_uri are required for full reauthentication. Please configure these values and use the OAuth2 flow to get fresh tokens.">>)

C19_WitnessMissing ==
    /\ op.name = "ensure_recent_authentication"
    /\ client_id = "cid" /\ client_secret = "" /\ redirect_uri = "uri"
    /\ op_result = C19_MissingCredentials

C20_Successful(answer) ==
    /\ answer.failure = ""
    /\ answer.status_code = 200
    /\ \E token \in {"tok_b", "tok_c"} : <<"access_token", token>> \in answer.body

C20_Rejected ==
    /\ op_result'.exc = "ValueError"
    /\ UNCHANGED <<client_vars, engine_vars, token_posts>>

C20_Accepted ==
    /\ Len(token_posts') = Len(token_posts) + 1
    /\ C20_Successful(op'.payload) =>
          /\ <<"access_token", access_token'>> \in op'.payload.body
          /\ session_auth' = <<"Bearer", access_token'>>

C20_WitnessRejected ==
    /\ op.name = "refresh_access_token"
    /\ op_result.exc = "ValueError"
    /\ client_id = "cid" /\ client_secret = "sec" /\ refresh_token = None
    /\ access_token = "tok_c"
    /\ Len(token_posts) = 1

ExchangeReturned ==
    /\ op.name \in {"exchange_code_for_token", "refresh_access_token"}
    /\ op_result.kind = "return"

\* C22: after every successful authorization-code exchange and every
\* successful refresh exchange, for every response of the token endpoint that
\* contains access_token, the client holds both an access token and a refresh
\* token, so that a refresh can follow.
C22_Original ==
    ExchangeReturned => access_token \notin {None, ""} /\ refresh_token \notin {None, ""}

C28_WitnessRefresh ==
    /\ op.name = "is_authentication_recent"
    /\ Len(token_posts) = 1
    /\ <<"grant_type", "refresh_token">> \in token_posts[1].data
    /\ access_token = "tok_c"

C29_Stored(key) == PyValue(Get(auth_file.json, key))

\* C29: a successful exchange_code_for_token or refresh_access_token with
\* auto_save enabled leaves the credentials file holding the new access and
\* refresh tokens, equal to the fields of the client; with auto_save disabled
\* it updates the fields and does not write the file; a failed exchange never
\* writes the file.
C29_PersistOnExchange ==
    [][ (Starts("exchange_code_for_token") \/ Starts("refresh_access_token")) =>
          IF op_result'.kind = "return"
          THEN /\ <<"access_token", access_token'>> \in op'.payload.body
               /\ IF auto_save
                  THEN /\ auth_file'.exists
                       /\ C29_Stored("access_token")' = access_token'
                       /\ C29_Stored("refresh_token")' = refresh_token'
                  ELSE auth_file' = auth_file
          ELSE auth_file' = auth_file
      ]_vars

C29_Witness ==
    /\ ExchangeReturned /\ op.name = "refresh_access_token"
    /\ auto_save
    /\ auth_file.exists
    /\ C29_Stored("access_token") = "tok_c"
    /\ C29_Stored("refresh_token") = None
    /\ access_token = "tok_c" /\ refresh_token = None

C29_WitnessNoSave ==
    /\ ExchangeReturned /\ ~auto_save
    /\ access_token = "tok_b"
    /\ auth_file = NoFile

(***************************************************************************)
(* Properties of the form body and of the decoders: each is applied once   *)
(* to one input.                                                           *)
(***************************************************************************)
InitValues ==
    /\ access_token = "tok_a"
    /\ max_retries = 3
    /\ retry_delay = 1
    /\ refresh_token = None
    /\ client_id = None
    /\ client_secret = None
    /\ redirect_uri = None
    /\ session_auth = InitialHeader(access_token)
    /\ auto_save = FALSE
    /\ auth_file = NoFile
    /\ EngineIdle
    /\ NoOperation

NextValues ==
    \/ form_data
    \/ from_dict

SpecValues == InitValues /\ [][NextValues]_vars

\* C30: in a form body every value that is a mapping or a list is sent as
\* its JSON text, and every scalar value as its string form.
C30_Original ==
    op.name = "form_data" =>
        \A item \in op.args.data :
            <<item[1], IF item[2].type \in {"dict", "list"}
                       THEN json_dumps(item[2])
                       ELSE str(item[2])>> \in op_result.data

\* the fields the data model lists as required, the optional ones with the
\* key each is read from, and the flags that default to false
C27_Required(cls) ==
    CASE cls = "Account"     -> {"id", "currency", "balance", "type"}
      [] cls = "Balance"     -> {"balance", "currency", "spend_today"}
      [] cls = "Transaction" -> {"id", "amount", "currency", "description", "category"}
      [] cls = "Pot"         -> {"id", "name", "balance", "currency", "style"}
      [] cls = "Webhook"     -> {"id", "account_id", "url"}
C27_Optional(cls) ==
    CASE cls = "Account"     -> {<<"name", "name">>, <<"description", "description">>}
      [] cls = "Balance"     -> {<<"local_currency", "local_currency">>,
                                 <<"local_spend", "local_spend">>}
      [] cls = "Transaction" -> {<<"notes", "notes">>, <<"merchant", "merchant">>}
      [] cls = "Pot"         -> {<<"goal_amount", "goal_amount">>}
      [] cls = "Webhook"     -> {<<"webhook_type", "type">>}
C27_Flags(cls) ==
    CASE cls = "Account" -> {"closed"}
      [] cls = "Pot"     -> {"deleted"}
      [] OTHER           -> {}

\* C27: a payload that lacks a field the data model lists as required makes
\* from_dict fail, and never yields a record; a payload that has them all and
\* decodes leaves every optional field it lacks absent, and a closed or
\* deleted flag it lacks false.
C27_Original ==
    op.name = "from_dict" =>
        LET cls == op.args.cls
            data == op.args.data
        IN  IF \E key \in C27_Required(cls) : ~HasKey(data, key)
            THEN op_result.kind = "raise"
            ELSE op_result.kind = "return" =>
                    /\ \A field \in C27_Optional(cls) :
                          ~HasKey(data, field[2]) => op_result.data[field[1]] = None
                    /\ \A flag \in C27_Flags(cls) :
                          ~HasKey(data, flag) => op_result.data[flag] = FALSE
                    /\ (cls # "Balance" /\ ~HasKey(data, "created")) =>
                          op_result.data.created = <<None>>

(***************************************************************************)
(* Properties of construction and of the credentials file                  *)
(***************************************************************************)
InitCredentials ==
    /\ access_token = None
    /\ refresh_token = None
    /\ client_id = None
    /\ client_secret = None
    /\ redirect_uri = None
    /\ session_auth = NoHeader
    /\ max_retries = 3
    /\ retry_delay = 1
    /\ auto_save = TRUE
    /\ auth_file \in Files
    /\ EngineIdle
    /\ NoOperation

NextCredentials ==
    \/ MonzoClient_init
    \/ save_auth
    \/ load_auth

SpecCredentials == InitCredentials /\ [][NextCredentials]_vars

CredentialKeys == {"access_token", "refresh_token", "client_id", "client_secret", "redirect_uri"}
Credentials ==
    [access_token |-> access_token, refresh_token |-> refresh_token, client_id |-> client_id,
     client_secret |-> client_secret, redirect_uri |-> redirect_uri]

\* C23: after construction each of the five fields holds the explicit
\* argument if one was given, else the environment variable if set, else the
\* value of the credentials file if the file exists.
C23_Original ==
    (op.name = "__init__" /\ op_result.kind = "return") =>
        \A key \in CredentialKeys :
            Credentials[key] =
                IF op.args.args[key] # None THEN op.args.args[key]
                ELSE IF op.args.env[key] # None THEN op.args.env[key]
                ELSE IF auth_file.exists THEN Loaded(auth_file.json, key)
                ELSE None

\* the constructor read the file: line 64 held for its arguments
C24_ReadFile ==
    /\ op.name = "__init__" /\ op_result.kind = "return"
    /\ LoadsFile(Resolved(op.args.args, op.args.env))

\* C24: once save_auth has written the file, load_auth from the same path,
\* or the construction of a client without tokens, leaves the client with
\* five fields equal to the ones that were saved, be they strings or None.
C24_RoundTrip ==
    ( /\ OpReturned("load_auth") \/ C24_ReadFile
      /\ auth_file.exists
      /\ auth_file.written # << >> )
        => <<access_token, refresh_token, client_id, client_secret, redirect_uri>>
              = auth_file.written

C24_Witness ==
    /\ OpReturned("load_auth")
    /\ auth_file.exists /\ auth_file.written # << >>
    /\ access_token = "tok_env" /\ refresh_token = None /\ client_id = "cid_arg"
    /\ auth_file.written[1] = "tok_env" /\ auth_file.written[2] = None

C24_WitnessFresh ==
    /\ C24_ReadFile
    /\ auth_file.exists /\ auth_file.written # << >>
    /\ op.args.args.client_id = "cid_arg"
    /\ client_id = None /\ auth_file.written[3] = None
    /\ redirect_uri = "uri_arg"

\* C25: with a file at the auth path that is not JSON, or that lacks some
\* keys, neither the constructor nor load_auth fails; after a file that is
\* not JSON the constructed client is as if there were no file, and after a
\* file that lacks keys the fields of those keys are None.
C25_Original ==
    (op.name \in {"__init__", "load_auth"} /\ auth_file.exists) =>
        /\ op_result.kind = "return"
        /\ (auth_file.json = CorruptJson /\ op.name = "__init__") =>
              Credentials = Resolved(op.args.args, op.args.env)
        /\ (auth_file.json # CorruptJson /\ (op.name = "load_auth" \/ C24_ReadFile)) =>
              \A key \in CredentialKeys :
                  ~HasKey(auth_file.json, key) => Credentials[key] = None

(***************************************************************************)
(* The client as a whole: token exchanges and resource operations, one     *)
(* after the other, and then one direct engine call, on a client           *)
(* constructed with max_retries = 0.                                       *)
(***************************************************************************)
InitClient ==
    /\ access_token \in {None, "tok_a"}
    /\ refresh_token \in {None, "ref_a"}
    /\ client_id = "cid"
    /\ client_secret \in {None, "sec"}
    /\ redirect_uri = "uri"
    /\ auto_save \in BOOLEAN
    /\ max_retries = 0
    /\ retry_delay = 1
    /\ session_auth = InitialHeader(access_token)
    /\ auth_file = NoFile
    /\ EngineIdle
    /\ NoOperation

\* the caller is single-threaded: a method starts when no engine call is
\* under way, and the engine is called directly when no method is
ClientExchange == pc = "idle" /\ exchange_code_for_token
ClientRefresh == pc = "idle" /\ refresh_access_token
ClientCall == op.name = "none" /\ CallWith({Request("GET", "/accounts", NoneData, NoneData)})
ClientDeposit == pc = "idle" /\ deposit_to_pot

NextClient ==
    \/ ClientExchange
    \/ ClientRefresh
    \/ ClientCall
    \/ AttemptNoHTTPError
    \/ AttemptHTTPError
    \/ AttemptNetworkFailure
    \/ AttemptOtherFailure
    \/ ClientDeposit
    \/ Returned

SpecClient == InitClient /\ [][NextClient]_vars

\* the step is a token exchange that fails: its precondition does not hold
\* in the client, or the token endpoint cannot be reached, answers with an
\* error status, with a body that is not JSON or with one without
\* access_token
C21_ExchangeStarts == Starts("exchange_code_for_token") \/ Starts("refresh_access_token")
C21_Fails ==
    \/ Starts("exchange_code_for_token") /\ ExchangeCredentialsMissing
    \/ Starts("refresh_access_token") /\ RefreshCredentialsMissing
    \/ /\ token_posts' # token_posts
       /\ \/ op'.payload.failure # ""
          \/ op'.payload.status_code >= 400
          \/ op'.payload.body = NotJson
          \/ ~HasKey(op'.payload.body, "access_token")

\* C21: a call of exchange_code_for_token or refresh_access_token that fails
\* on its precondition, on an error status of the token endpoint or on a
\* response without access_token leaves access_token, refresh_token and the
\* Authorization header of the session as they were; and so does every step
\* of an engine call and every resource operation.
C21_TokenFrame ==
    [][ /\ (C21_ExchangeStarts /\ C21_Fails) =>
              UNCHANGED <<access_token, refresh_token, session_auth>>
        /\ ~C21_ExchangeStarts =>
              UNCHANGED <<access_token, refresh_token, session_auth>> ]_vars

\* a refresh answered with status 400 and a body that has an access_token
C21_Witness ==
    /\ op.name = "refresh_access_token"
    /\ Len(token_posts) = 2
    /\ op.payload.status_code = 400 /\ HasKey(op.payload.body, "access_token")
    /\ op_result.exc = "HTTPError"
    /\ access_token = "tok_b" /\ refresh_token = "ref_b"

\* a deposit made after a successful exchange
C21_WitnessOperation ==
    /\ OpReturned("deposit_to_pot")
    /\ Len(token_posts) = 1
    /\ access_token = "tok_b" /\ session_auth = Bearer("tok_b")

\* an engine call that ends in an error, made after a successful exchange
C21_WitnessEngine ==
    /\ pc = "done" /\ result.exc = "MonzoRateLimitError"
    /\ Len(token_posts) = 1
    /\ access_token = "tok_b" /\ session_auth = Bearer("tok_b")

(***************************************************************************)
(* Further properties of the request engine                                *)
(***************************************************************************)
\* C31: every engine call that fails ends with one of the four kinds of the
\* taxonomy (Authentication, RateLimit, Validation, generic API), whatever the
\* status and the body of the response.
C31_Original ==
    (pc = "done" /\ result.kind = "raise") => result.exc \in TaxonomyKinds


\* an attempt whose outcome the engine may retry
C33_Retryable(e) == Is429(e) \/ Is5xx(e) \/ IsNetworkFailure(e)

\* C33 as stated: every finished engine call has slept exactly once less than
\* it has made HTTP attempts.
C33_Original ==
    pc = "done" => NumSleeps = NumAttempts - 1

\* C33 amended: an engine call that has made at least one HTTP attempt has,
\* when it ends, slept exactly once less than it has attempted, and one that
\* has made none has not slept; every sleep follows a retryable failure (429,
\* 5xx, network failure) and is followed by the next attempt, so none comes
\* before the first attempt or after the last.
C33_SleepsBetweenAttempts ==
    /\ (pc = "done" /\ NumAttempts >= 1) => NumSleeps = NumAttempts - 1
    /\ NumAttempts = 0 => NumSleeps = 0
    /\ \A i \in 1..Len(log) :
          IsSleepEv(log[i]) =>
              /\ i > 1 /\ IsAttemptEv(log[i - 1]) /\ C33_Retryable(log[i - 1])
              /\ i < Len(log) => IsAttemptEv(log[i + 1])
              /\ i = Len(log) => (pc = "loop" /\ InRange(attempt))

\* a call that ended in success after two retried failures of different kinds
C33_Witness ==
    /\ pc = "done" /\ result.kind = "return"
    /\ NumAttempts = 3 /\ NumSleeps = 2
    /\ Is5xx(log[1]) /\ IsNetworkFailure(log[3])

\* a call that ended at once, and one that exhausted its budget
C33_WitnessImmediate ==
    pc = "done" /\ max_retries = 2 /\ NumAttempts = 1 /\ NumSleeps = 0 /\ IsHttp(LastEv, 400)
C33_WitnessExhausted ==
    pc = "done" /\ max_retries = 2 /\ NumAttempts = 3 /\ NumSleeps = 2 /\ Is429(LastEv)

\* the call has used its whole budget and its last attempt failed retryably
C34_Exhausted ==
    /\ pc = "done" /\ max_retries >= 0
    /\ NumAttempts = max_retries + 1
    /\ C33_Retryable(LastEv)

\* the error the kind of the final attempt decides
C34_KindOfLast ==
    /\ Is429(LastEv) => result.exc = "MonzoRateLimitError"
    /\ Is5xx(LastEv) =>
          result.exc = "MonzoAPIError" /\ result.status_code = LastEv.status_code
    /\ IsNetworkFailure(LastEv) =>
          result.exc = "MonzoAPIError" /\ result.status_code = NoStatus

\* one counter for all retryable kinds: the k-th retryable failure of a call,
\* whatever its kind and the kinds before it, is attempt k - 1 and is followed
\* by a sleep of retry_delay * 2^(k - 1) while k - 1 < max_retries
C34_SharedBudget ==
    \A i \in 1..Len(log) :
        (IsAttemptEv(log[i]) /\ C33_Retryable(log[i]) /\ AttemptIndex(i) < max_retries) =>
            /\ i < Len(log)
            /\ IsSleepEv(log[i + 1])
            /\ log[i + 1].wait = retry_delay * (2 ^ AttemptIndex(i))

\* C34: the retryable failures of one call share one budget, each consuming
\* one attempt and advancing the backoff exponent, and when the budget is
\* exhausted the error raised is the one the final attempt's kind decides:
\* 429 the RateLimit error, 5xx the API error with the status, a network
\* failure the API error without status.
C34_Original ==
    /\ C34_SharedBudget
    /\ C34_Exhausted => (result.kind = "raise" /\ C34_KindOfLast)

\* the part of C34 that holds: the shared budget, and the kind of the final
\* attempt deciding the error when that attempt's body can be parsed
C34_ParsedBody ==
    /\ C34_SharedBudget
    /\ (C34_Exhausted /\ (LastEv.ev = "http" =>
            (IsJson(response.content) \/ (Is5xx(LastEv) /\ ~HasContent(response.content))))) =>
          (result.kind = "raise" /\ C34_KindOfLast)

\* a mixed sequence: a 5xx, a network failure, and a final 429
C34_WitnessMixed ==
    /\ C34_Exhausted /\ max_retries = 2
    /\ Is5xx(log[1]) /\ IsNetworkFailure(log[3]) /\ Is429(LastEv)
    /\ result.exc = "MonzoRateLimitError"

\* the error of lines 327-328, raised after the loop
C35_FallThrough == MonzoAPIError("Request failed after retries", NoStatus, NoneData)

\* C35 as stated: for max_retries >= 0 the loop never runs out, so every
\* error a call ends with comes after at least one attempt, and a call makes
\* no attempt only when max_retries < 0, ending then at the fall-through raise.
C35_Original ==
    /\ (pc = "loop" /\ max_retries >= 0) => InRange(attempt)
    /\ (pc = "done" /\ result.kind = "raise" /\ max_retries >= 0) => NumAttempts >= 1
    /\ (pc = "done" /\ NumAttempts = 0) => (max_retries < 0 /\ result = C35_FallThrough)

\* C35 amended: for every max_retries >= 0 the loop never runs out, so the
\* fall-through raise is unreachable and every error of a call that passed
\* the access-token check comes from the outcome of an attempt it made; a
\* call that passed the check makes no attempt only when max_retries < 0, and
\* it ends then at the fall-through API error; a call without access token
\* makes no attempt either and ends with the Authentication error.
C35_FallThroughUnreachable ==
    /\ (pc = "loop" /\ max_retries >= 0) => InRange(attempt)
    /\ (pc = "done" /\ Truthy(access_token) /\ max_retries >= 0) =>
          (NumAttempts >= 1 /\ IsAttemptEv(LastEv))
    /\ (pc = "done" /\ Truthy(access_token) /\ max_retries < 0) =>
          (log = << >> /\ result = C35_FallThrough)
    /\ (pc = "done" /\ ~Truthy(access_token)) =>
          (log = << >> /\ result.exc = "MonzoAuthenticationError")

\* a call of a client constructed with max_retries = -1
C35_Witness ==
    /\ pc = "done" /\ max_retries < 0 /\ Truthy(access_token)
    /\ log = << >> /\ result = C35_FallThrough

\* a call that exhausted a budget of 0 on its one attempt
C35_WitnessExhausted ==
    /\ pc = "done" /\ max_retries = 0 /\ NumAttempts = 1
    /\ IsNetworkFailure(LastEv) /\ result.kind = "raise"

\* the step is one iteration of the loop: a request is sent
C36_Sends == Len(sent') = Len(sent) + 1

\* C36: every attempt of a call sends the method, endpoint, query parameters,
\* body and encoding of the first, which are those the caller gave; whether
\* the call goes on after an attempt depends on the attempt's outcome and the
\* budget alone (a 429, 5xx or network failure with attempt < max_retries),
\* not on the method or the endpoint; so a PUT /pots/p/deposit is sent again
\* after such a failure with the same dedupe_id, or again without one.
C36_SameRequestResent ==
    [][C36_Sends =>
          LET r == sent'[Len(sent')]
              outcome == log'[Len(log) + 1]
          IN  /\ request' = request
              /\ r = sent'[1]
              /\ r.method = request.method /\ r.endpoint = request.endpoint
              /\ r.params = request.params /\ r.data = request.data
              /\ pc' = "loop" <=> (C33_Retryable(outcome) /\ attempt < max_retries)]_vars

\* a deposit with a dedupe_id sent three times: after a 5xx and after a
\* network failure
C36_Witness ==
    /\ Len(sent) = 3 /\ max_retries = 2
    /\ request.method = "PUT" /\ request.endpoint = "/pots/p/deposit"
    /\ Is5xx(log[1]) /\ IsNetworkFailure(log[3])
    /\ \A i \in 1..3 : <<"dedupe_id", "d1">> \in sent[i].data /\ sent[i].encoding = "form"

\* a deposit without dedupe_id sent twice
C36_WitnessNoDedupe ==
    /\ Len(sent) = 2
    /\ request.method = "PUT" /\ request.endpoint = "/pots/p/deposit"
    /\ IsNetworkFailure(log[1])
    /\ \A i \in 1..2 : sent[i].data = {<<"source_account_id", "acc_1">>, <<"amount", 500>>}

(***************************************************************************)
(* One client over its life: MonzoClient(...) has returned, and the caller *)
(* runs load_auth, the token exchanges and engine calls one after the      *)
(* other.  The client is constructed with max_retries = 0.                 *)
(***************************************************************************)
SessionArgs ==
    [access_token : {None, "tok_arg"}, refresh_token : {"ref_arg"},
     client_id : {"cid_arg"}, client_secret : {"sec_arg"}, redirect_uri : {"uri_arg"}]
SessionFiles ==
    { NoFile,
      FileWith({<<"client_id", JsonValue("cid_file")>>,
                <<"client_secret", JsonValue("sec_file")>>}, << >>),
      FileWith({<<"access_token", JsonValue("tok_file")>>,
                <<"refresh_token", JsonValue("ref_file")>>,
                <<"client_id", JsonValue("cid_file")>>,
                <<"client_secret", JsonValue("sec_file")>>,
                <<"redirect_uri", JsonValue("uri_file")>>}, << >>) }

\* the client MonzoClient(max_retries=0, **args) returns: lines 57-76
InitSession ==
    /\ auth_file \in SessionFiles
    /\ \E args \in SessionArgs, env \in Environments :
          LET resolved == Resolved(args, env)
              fields == IF LoadsFile(resolved) THEN LoadedFields(auth_file.json)
                                               ELSE resolved
          IN  /\ access_token = fields.access_token
              /\ refresh_token = fields.refresh_token
              /\ client_id = fields.client_id
              /\ client_secret = fields.client_secret
              /\ redirect_uri = fields.redirect_uri
    /\ session_auth = InitialHeader(access_token)
    /\ max_retries = 0
    /\ retry_delay = 1
    /\ auto_save = TRUE
    /\ EngineIdle
    /\ NoOperation

\* the caller is single-threaded: a method starts when the one before it
\* has returned and no engine call is under way
SessionIdle == pc = "idle" /\ op.name = "none"
SessionLoad == SessionIdle /\ LoadAuth
SessionExchange == SessionIdle /\ (exchange_code_for_token \/ refresh_access_token)
SessionCall == SessionIdle /\ CallWith({Request("GET", "/accounts", NoneData, NoneData)})

\* the call has returned or raised: its locals are gone
SessionCallReturned ==
    /\ pc = "done"
    /\ pc' = "idle"
    /\ request' = Request("GET", "/accounts", NoneData, NoneData)
    /\ attempt' = 0
    /\ response' = NoResponse
    /\ log' = << >>
    /\ result' = NoResult
    /\ sent' = << >>
    /\ UNCHANGED <<client_vars, op_vars>>

NextSession ==
    \/ SessionLoad
    \/ SessionExchange
    \/ Returned
    \/ SessionCall
    \/ AttemptNoHTTPError
    \/ AttemptHTTPError
    \/ AttemptNetworkFailure
    \/ AttemptOtherFailure
    \/ SessionCallReturned

SpecSession == InitSession /\ [][NextSession]_vars

\* a step of the engine: the call enters it, an attempt, its return
C32_EngineStep == pc # "idle" \/ pc' # "idle"

\* C32: no step of the engine changes the five credential fields or the
\* session's Authorization header, and none posts to the token endpoint; an
\* attempt answered 401 ends the call, and the request it sent carried the
\* token the client still holds.
C32_KeepsRejectedToken ==
    [][/\ C32_EngineStep =>
            UNCHANGED <<access_token, refresh_token, client_id, client_secret,
                        redirect_uri, session_auth, token_posts>>
       /\ (pc = "loop" /\ response'.status_code = 401 /\ Len(log') > Len(log)) =>
            /\ pc' = "done"
            /\ sent'[Len(sent')].authorization = Bearer(access_token')]_vars

\* a call of a client that holds everything a refresh needs ended in a 401
C32_Witness ==
    /\ pc = "done" /\ response.status_code = 401
    /\ ~RefreshCredentialsMissing
    /\ token_posts = << >>

\* a call ended in a 401 after the caller had exchanged tokens
C32_WitnessAfterExchange ==
    /\ pc = "done" /\ response.status_code = 401
    /\ Len(token_posts) > 0
    /\ sent[1].authorization = session_auth


\* C37: on a client whose methods run one after the other, every request
\* the engine sends carries the header "Bearer t" with t the access_token
\* the client holds at that moment, whatever construction, load_auth and
\* exchanges came before; while a call is in its loop the session header is
\* the one of the current token.
C37_BearerOfCurrentToken ==
    [][/\ Len(sent') > Len(sent) =>
            LET r == sent'[Len(sent')]
            IN  /\ r.authorization # NoHeader
                /\ r.authorization = Bearer(access_token')
                /\ Truthy(access_token')
       /\ pc' = "loop" => session_auth' = Bearer(access_token')]_vars

\* a request sent with the token of an exchange made after construction
C37_Witness ==
    /\ Len(sent) = 1 /\ Len(token_posts) >= 1
    /\ access_token = "tok_c"
    /\ sent[1].authorization = Bearer("tok_c")

\* a request sent with the token load_auth read after an exchange
C37_WitnessLoad ==
    /\ Len(sent) = 1 /\ Len(token_posts) >= 1
    /\ access_token = "tok_file"
    /\ sent[1].authorization = Bearer("tok_file")

\* a call refused after load_auth read a file without access_token
C37_WitnessRefused ==
    /\ pc = "done" /\ sent = << >>
    /\ access_token = None /\ session_auth = Bearer(None)


(***************************************************************************)
(* get_transactions(auto_paginate=True) as a loop that runs: every          *)
(* iteration of `while True` in _get_all_transactions                      *)
(* makes its request and handles the outcome (each request has a timeout,  *)
(* lines 251-266), so a loop that is about to request a page eventually    *)
(* has requested it and handled the outcome.                               *)
(***************************************************************************)
NextPagination ==
    \/ get_transactions_paginated
    \/ get_all_transactions_page

SpecPagination == InitOps /\ [][NextPagination]_vars /\ WF_engine_calls(PageRequest)

\* the loop of _get_all_transactions has made at least one request
C38_Paging == AutoPaginating /\ Len(engine_calls) >= 1

\* the request of the last iteration failed or its page had fewer than 100 items
C38_ShortOrFailed ==
    IF result.kind = "raise" THEN TRUE ELSE Len(result.data) < 100

\* the loop has ended exactly when the last request failed or returned a
\* page of fewer than 100 items; while it goes on every page fetched had at
\* least 100 items and the accumulated list holds them all
C38_EndsOnlyOnShortPage ==
    C38_Paging =>
        /\ op.pc = "done" <=> C38_ShortOrFailed
        /\ op.pc = "page" =>
              /\ Len(op.payload) = Len(engine_calls)
              /\ \A k \in 1..Len(op.payload) : Len(op.payload[k]) >= 100
              /\ all_transactions = Concat(op.payload)
              /\ Len(all_transactions) >= 100 * Len(engine_calls)

C38_WitnessEnded ==
    /\ AutoPaginating /\ op.pc = "done" /\ op_result.kind = "return"
    /\ Len(op.payload) = 3 /\ Len(op.payload[3]) = 0
    /\ Len(op_result.data) >= 200


(***************************************************************************)
(* Further properties of the resource operations                           *)
(***************************************************************************)
\* the positions in the response's pot list whose name equals `name`
\* ignoring case
C39_Exact(raw_pots, name) ==
    {i \in 1..Len(raw_pots) : lower(raw_pots[i].name) = lower(name)}

\* C39: the result of get_pot_by_name is the one of a search of the whole
\* pot list of the response for the first pot whose name equals the query
\* ignoring case: that pot when there is one, however many there are, and the
\* ValueError otherwise.
C39_Original ==
    (op.name = "get_pot_by_name" /\ result.kind = "return") =>
        LET exact == C39_Exact(op.payload, op.args.pot_name)
        IN  IF exact # {}
            THEN /\ op_result.kind = "return"
                 /\ op_result.data =
                        PotFromDict(op.payload[CHOOSE i \in exact : \A j \in exact : i <= j])
            ELSE op_result.exc = "ValueError"

\* what holds of it for every non-empty query
C39_NonEmptyName ==
    (op.name = "get_pot_by_name" /\ op.args.pot_name # << >>) => C39_Original

\* two pots equal to the query ignoring case, after one that contains it
C39_WitnessFirstOfSeveral ==
    /\ OpReturned("get_pot_by_name")
    /\ op.args.pot_name = <<"a">>
    /\ Len(op.payload) = 2
    /\ op.payload[1] = [id |-> "pot_2", name |-> <<"A">>]
    /\ op.payload[2] = [id |-> "pot_1", name |-> <<"a">>]
    /\ op_result.data.id = "pot_2"


(***************************************************************************)
(* Two threads on one client: one runs token exchanges, statement by       *)
(* statement from the assignment of line 154 / 178 on, the other engine     *)
(* calls, attempt by attempt.  The interpreter may switch threads between  *)
(* any two statements; session.request reads the session headers when the  *)
(* attempt is sent.                                                        *)
(***************************************************************************)
InitThreads ==
    /\ access_token \in {None, "tok_a"}
    /\ refresh_token = "ref_a"
    /\ client_id = "cid"
    /\ client_secret = "sec"
    /\ redirect_uri = "uri"
    /\ auto_save \in BOOLEAN
    /\ max_retries = 0
    /\ retry_delay = 1
    /\ session_auth = InitialHeader(access_token)
    /\ auth_file = NoFile
    /\ EngineIdle
    /\ NoOperation

\* an exchange up to `tokens = response.json()`: lines 140-153 and 168-177
ExchangeRequest ==
    /\ op.name = "none"
    /\ Len(token_posts) < MaxExchanges
    /\ \E name \in {"exchange_code_for_token", "refresh_access_token"},
          answer \in TokenAnswers :
          LET code == name = "exchange_code_for_token"
              missing == IF code THEN ExchangeCredentialsMissing
                                 ELSE RefreshCredentialsMissing
              data == IF code
                      THEN {<<"grant_type", "authorization_code">>,
                            <<"client_id", client_id>>, <<"client_secret", client_secret>>,
                            <<"redirect_uri", redirect_uri>>, <<"code", "code_1">>}
                      ELSE {<<"grant_type", "refresh_token">>, <<"client_id", client_id>>,
                            <<"client_secret", client_secret>>,
                            <<"refresh_token", refresh_token>>}
              message == IF code
                         THEN "client_id, client_secret, and redirect_uri are required for token exchange"
                         ELSE "client_id, client_secret, and refresh_token are required for token refresh"
              tokens == TokensOf(answer)
          IN  IF missing
              THEN /\ op' = [name |-> name, pc |-> "done", args |-> << >>, payload |-> answer]
                   /\ op_result' = ValueError(<<message>>)
                   /\ UNCHANGED token_posts
              ELSE /\ token_posts' = Append(token_posts,
                                            [url |-> TOKEN_URL, data |-> data, timeout |-> 30])
                   /\ op' = [name |-> name, args |-> << >>, payload |-> answer,
                             pc |-> IF tokens.kind = "raise" THEN "done" ELSE "access_token"]
                   /\ op_result' = IF tokens.kind = "raise" THEN tokens ELSE NoResult
    /\ UNCHANGED <<client_vars, engine_vars, engine_calls, all_transactions, before_id>>

\* the next statement of lines 154-159 / 178-183
ExchangeStatement ==
    /\ op.name \in {"exchange_code_for_token", "refresh_access_token"}
    /\ \/ /\ op.pc = "access_token"
          /\ access_token' = Get(op.payload.body, "access_token")
          /\ op' = [op EXCEPT !.pc = "refresh_token"]
          /\ UNCHANGED <<refresh_token, session_auth, auth_file, op_result>>
       \/ /\ op.pc = "refresh_token"
          /\ refresh_token' = GetOrNone(op.payload.body, "refresh_token")
          /\ op' = [op EXCEPT !.pc = "header"]
          /\ UNCHANGED <<access_token, session_auth, auth_file, op_result>>
       \/ /\ op.pc = "header"
          /\ session_auth' = Bearer(access_token)
          /\ op' = [op EXCEPT !.pc = "save_auth"]
          /\ UNCHANGED <<access_token, refresh_token, auth_file, op_result>>
       \/ /\ op.pc = "save_auth"
          /\ \E writable \in BOOLEAN :
                /\ auth_file' = IF auto_save /\ writable
                                THEN SavedAuth(access_token, refresh_token) ELSE auth_file
                /\ op_result' = IF auto_save /\ ~writable THEN PythonError("OSError")
                                ELSE Return(op.payload.body)
          /\ op' = [op EXCEPT !.pc = "done"]
          /\ UNCHANGED <<access_token, refresh_token, session_auth>>
    /\ UNCHANGED <<max_retries, retry_delay, client_id, client_secret, redirect_uri,
                   auto_save, engine_vars, token_posts, engine_calls, all_transactions,
                   before_id>>

\* the other thread enters the engine, whatever the first is doing
ThreadCall == CallWith({Request("GET", "/accounts", NoneData, NoneData)})

NextThreads ==
    \/ ExchangeRequest
    \/ ExchangeStatement
    \/ Returned
    \/ ThreadCall
    \/ AttemptNoHTTPError
    \/ AttemptHTTPError
    \/ AttemptNetworkFailure
    \/ AttemptOtherFailure
    \/ SessionCallReturned

SpecThreads == InitThreads /\ [][NextThreads]_vars

\* the access tokens the client is constructed with or receives
C40_Tokens == {"tok_a", "tok_b", "tok_c"}

\* C40: whatever the interleaving of an exchange and an engine call on one
\* client, every request the engine sends has an Authorization header, and
\* the header bears the access token the client held before the exchange or
\* the one it received.
C40_Original ==
    [][Len(sent') > Len(sent) =>
          LET r == sent'[Len(sent')]
          IN  /\ r.authorization # NoHeader
              /\ r.authorization \in {Bearer(t) : t \in C40_Tokens}]_vars

\* what holds: once the session has an Authorization header every request
\* carries one, bearing a token the client held or received
C40_OnceAuthorized ==
    [][(Len(sent') > Len(sent) /\ session_auth # NoHeader) =>
          sent'[Len(sent')].authorization \in {Bearer(t) : t \in C40_Tokens}]_vars

\* a request sent without Authorization header by a client that holds a token
C40_WitnessNoHeader ==
    /\ Len(sent) >= 1 /\ sent[1].authorization = NoHeader
    /\ Truthy(access_token)
    /\ op.pc \in {"refresh_token", "header"}

====
